---- MODULE Spec2Model ----
(***************************************************************************)
(* A model of the danmaku parameter codec, the statistics aggregation and  *)
(* the popularity / duplicate detection of misaka_danmu_server.            *)
(*                                                                         *)
(* Strings are sequences of one-character strings, so that splitting,      *)
(* number parsing and formatting are computed character by character.      *)
(* The Chinese labels of the source are written as ASCII glosses; each     *)
(* gloss names its original in a comment.                                  *)
(***************************************************************************)
EXTENDS Integers, Sequences, FiniteSets, TLC

VARIABLES
    params,        \* codec: the packed string handed to parse_params_string
    parsed,        \* codec: the outcome of parse_params_string(params)
    codecPc,       \* codec: "build" while the input grows, "done" after the call
    row_labels,    \* codec: the catalog labels of the decoded mode, font size and color
    comments,      \* storage: the committed rows of table comment
    nextId,        \* storage: the next autoincrement id
    submitted,     \* storage (history): id -> the t each comment was submitted with
    dbType,        \* storage: DatabaseConfig.type, "mysql" | "postgresql" | "sqlite"
    view,          \* storage: dialect comment_params_view was created for, or "none"
    statsPc,       \* statistics call: the query it is about to issue
    statsCall,     \* statistics call: entry point and arguments
    basic_stats,   \* statistics call: basic_stats of get_danmaku_statistics
    dist,          \* statistics call: color_dist, mode_dist, size_dist so far
    statsLog,      \* statistics call (history): queries raised, rows fetched, path of each distribution
    enhancedResult,\* outcome of get_comprehensive_statistics
    statsResult,   \* outcome of get_danmaku_statistics
    popPc,         \* popular call: "idle", "rank", "load" or "done"
    popCall,       \* popular call: arguments of get_popular_danmaku
    rank_rows,     \* popular call: result.all() of the ranking query, <<id, nearby_count>>
    comment_ids,   \* popular call: the ids the ranking query returned
    popResult,     \* outcome of get_popular_danmaku
    cleanup,       \* cleanup_duplicate_danmaku: the state of each caller's call
    listing,       \* get_parsed_danmaku call: position, arguments and result
    simCall        \* the last similarity call: function, arguments and value

codecVars == <<params, parsed, codecPc, row_labels>>
storeVars == <<comments, nextId, submitted, dbType, view>>
statsVars == <<statsPc, statsCall, basic_stats, dist, statsLog, enhancedResult, statsResult>>
popVars == <<popPc, popCall, rank_rows, comment_ids, popResult>>
dupVars == <<cleanup>>
listVars == <<listing>>
simVars == <<simCall>>

(***************************************************************************)
(* Bounds of the model.                                                    *)
(***************************************************************************)
MaxFields == 9     \* most comma-separated fields of a packed string
MaxOdd == 2        \* most fields of a packed string that are not "7"
MaxStatsRows == 2  \* most rows of table comment in the statistics specification
MaxPopRows == 3    \* most rows of table comment in the popularity specification
MaxRaceRows == 3   \* most rows of table comment when two callers clean an episode
MaxStatsWrites == 2 \* most comments inserted while a statistics call may run
MaxDupRows == 4    \* most rows of table comment in the duplicate specification

(***************************************************************************)
(* Characters and Python's str -> number conversions.                      *)
(***************************************************************************)
Digits == {"0", "1", "2", "3", "4", "5", "6", "7", "8", "9"}

DigitVal(c) ==
    CASE c = "0" -> 0 [] c = "1" -> 1 [] c = "2" -> 2 [] c = "3" -> 3
      [] c = "4" -> 4 [] c = "5" -> 5 [] c = "6" -> 6 [] c = "7" -> 7
      [] c = "8" -> 8 [] c = "9" -> 9

RECURSIVE DecValue(_)
\* the value of a sequence of decimal digits
DecValue(s) ==
    IF s = <<>> THEN 0
    ELSE 10 * DecValue(SubSeq(s, 1, Len(s) - 1)) + DigitVal(s[Len(s)])

AllDigits(s) == \A i \in 1..Len(s) : s[i] \in Digits

\* str.split(','): the fields between the commas; ''.split(',') is ['']
RECURSIVE Split(_)
Split(s) ==
    IF \A i \in 1..Len(s) : s[i] # ","
    THEN <<s>>
    ELSE LET k == CHOOSE i \in 1..Len(s) :
                      s[i] = "," /\ \A j \in 1..(i - 1) : s[j] # ","
         IN  <<SubSeq(s, 1, k - 1)>> \o Split(SubSeq(s, k + 1, Len(s)))

HasSign(s) == Len(s) > 0 /\ s[1] \in {"-", "+"}
Unsigned(s) == IF HasSign(s) THEN Tail(s) ELSE s
Sign(s) == IF Len(s) > 0 /\ s[1] = "-" THEN -1 ELSE 1

\* int(str): an optional sign and one or more decimal digits; anything else
\* raises ValueError.  (Surrounding whitespace and '_' separators, which
\* int() also accepts, are outside the alphabet of the model.)
PyInt(s) ==
    LET u == Unsigned(s)
    IN  IF Len(u) > 0 /\ AllDigits(u)
        THEN [ok |-> TRUE, val |-> Sign(s) * DecValue(u)]
        ELSE [ok |-> FALSE, exc |-> "ValueError"]

RECURSIVE Pow10(_)
Pow10(k) == IF k = 0 THEN 1 ELSE 10 * Pow10(k - 1)

RECURSIVE NormDec(_, _)
\* the decimal m / 10^k in lowest terms of ten
NormDec(m, k) ==
    IF k > 0 /\ m % 10 = 0 THEN NormDec(m \div 10, k - 1) ELSE <<m, k>>

\* float(str): an optional sign, decimal digits with at most one '.', at
\* least one digit.  The value m / 10^k is kept as the pair <<m, k>>.
\* (Exponents, 'inf' and 'nan' are outside the alphabet of the model.)
PyFloat(s) ==
    LET u == Unsigned(s)
        dots == {i \in 1..Len(u) : u[i] = "."}
        digs == SelectSeq(u, LAMBDA c : c # ".")
    IN  IF Cardinality(dots) <= 1 /\ Len(digs) > 0 /\ AllDigits(digs)
        THEN LET k == IF dots = {} THEN 0
                      ELSE Len(u) - (CHOOSE i \in dots : TRUE)
                 nd == NormDec(DecValue(digs), k)
             IN  [ok |-> TRUE, val |-> <<Sign(s) * nd[1], nd[2]>>]
        ELSE [ok |-> FALSE, exc |-> "ValueError"]

(***************************************************************************)
(* DanmakuParamsParser.parse_params_string                                  *)
(***************************************************************************)
ParamKeys ==
    {"time", "mode", "font_size", "color", "timestamp", "pool",
     "danmaku_id", "user_hash"}

EmptyDict == [k \in {} |-> 0]

\* the exceptions the except clause of parse_params_string catches
CaughtByParser == {"ValueError", "IndexError"}

\* the conversions of the dict literal, in evaluation order
Conversions(parts) ==
    <<PyFloat(parts[1]), PyInt(parts[2]), PyInt(parts[3]), PyInt(parts[4]),
      PyInt(parts[5]), PyInt(parts[6])>>

\* faulty variant of ParseOutcome: the except clause catches IndexError only
ParseOutcomeNarrowExcept(s) ==
    LET parts == Split(s)
    IN  IF Len(parts) >= 8
        THEN LET cv == Conversions(parts)
                 bad == {i \in 1..6 : ~cv[i].ok}
             IN  IF bad = {}
                 THEN [kind |-> "return",
                       value |-> [time |-> cv[1].val, mode |-> cv[2].val,
                                  font_size |-> cv[3].val, color |-> cv[4].val,
                                  timestamp |-> cv[5].val, pool |-> cv[6].val,
                                  danmaku_id |-> parts[7],
                                  user_hash |-> IF Len(parts) > 7 THEN parts[8] ELSE <<>>]]
                 ELSE [kind |-> "raise", exc |-> "ValueError"]
        ELSE [kind |-> "return", value |-> EmptyDict]

\* faulty variant of ParseOutcome: user_hash is the last field, as
\* SUBSTRING_INDEX(p, ',', -1) takes it, instead of parts[7]
ParseOutcomeLastField(s) ==
    LET parts == Split(s)
        out == ParseOutcomeNarrowExcept(s)
    IN  IF out.kind = "return" /\ out.value # EmptyDict
        THEN [out EXCEPT !.value.user_hash = parts[Len(parts)]]
        ELSE IF out.kind = "raise" THEN [kind |-> "return", value |-> EmptyDict]
        ELSE out

\* parse_params_string(params): what the call does, a returned dict or a
\* raised exception.  The first failing conversion raises; the except clause
\* swallows ValueError and IndexError and the function returns {}.
ParseOutcome(s) ==
    LET parts == Split(s)
    IN  IF Len(parts) >= 8
        THEN LET cv == Conversions(parts)
                 bad == {i \in 1..6 : ~cv[i].ok}
             IN  IF bad = {}
                 THEN [kind |-> "return",
                       value |-> [time |-> cv[1].val, mode |-> cv[2].val,
                                  font_size |-> cv[3].val, color |-> cv[4].val,
                                  timestamp |-> cv[5].val, pool |-> cv[6].val,
                                  danmaku_id |-> parts[7],
                                  user_hash |-> IF Len(parts) > 7 THEN parts[8] ELSE <<>>]]
                 ELSE LET first == CHOOSE i \in bad : \A j \in bad : i <= j
                      IN  IF cv[first].exc \in CaughtByParser
                          THEN [kind |-> "return", value |-> EmptyDict]
                          ELSE [kind |-> "raise", exc |-> cv[first].exc]
        ELSE [kind |-> "return", value |-> EmptyDict]

\* the dict parse_params_string returns ({} when it fails)
parse_params_string(s) == ParseOutcome(s).value

\* no parse_params_string call is in progress
CodecIdle ==
    /\ params = <<>>
    /\ parsed = [kind |-> "none"]
    /\ codecPc = "idle"
    /\ row_labels = [kind |-> "none"]

\* no get_popular_danmaku call is in progress
PopIdle ==
    /\ popPc = "idle"
    /\ popCall = [episode_id |-> 0, limit |-> 0]
    /\ rank_rows = <<>>
    /\ comment_ids = <<>>
    /\ popResult = [kind |-> "none"]

\* the callers of cleanup_duplicate_danmaku, each with a session of its own
Callers == {1, 2}

IdleCleanup ==
    [pc |-> "idle", entry |-> "none", episode_id |-> 0, similarity_threshold |-> 0,
     all_danmaku |-> <<>>, duplicates |-> <<>>, removed_count |-> 0,
     deleted |-> {}, queries |-> 0, compared |-> FALSE, result |-> [kind |-> "none"],
     \* history: the calls that had returned when this one was made, the step
     \* an exception came from, the ids whose DELETE matched a row, the
     \* rows of the episode stored when the call committed, and the ids whose
     \* DELETE a rollback undid
     after |-> {}, raised_at |-> "none", matched |-> {}, stored_after |-> 0,
     undone |-> {}]

\* no cleanup_duplicate_danmaku call is in progress
DupIdle == cleanup = [c \in Callers |-> IdleCleanup]

IdleListing == [pc |-> "idle", episode_id |-> 0, limit |-> 0, result |-> [kind |-> "none"]]

\* no get_parsed_danmaku call is in progress
ListIdle == listing = IdleListing

\* no similarity has been computed
SimIdle == simCall = [fn |-> "none"]

(***************************************************************************)
(* AttributeCatalog: get_color_hex, get_mode_name, get_font_size_name.     *)
(* A label is a sequence of strings.                                       *)
(***************************************************************************)
HexChars ==
    <<"0", "1", "2", "3", "4", "5", "6", "7", "8", "9", "A", "B", "C", "D", "E", "F">>

DecChars == <<"0", "1", "2", "3", "4", "5", "6", "7", "8", "9">>

RECURSIVE HexStr(_)
\* the uppercase hexadecimal digits of n >= 0
HexStr(n) ==
    IF n < 16 THEN <<HexChars[n + 1]>>
    ELSE HexStr(n \div 16) \o <<HexChars[(n % 16) + 1]>>

RECURSIVE DecStr(_)
\* str(n)
DecStr(n) ==
    IF n < 0 THEN <<"-">> \o DecStr(-n)
    ELSE IF n < 10 THEN <<DecChars[n + 1]>>
    ELSE DecStr(n \div 10) \o <<DecChars[(n % 10) + 1]>>

RECURSIVE ZeroPad(_, _)
ZeroPad(s, w) == IF Len(s) >= w THEN s ELSE ZeroPad(<<"0">> \o s, w)

\* f"#{color:06X}": the sign counts towards the width of 6
get_color_hex(color) ==
    IF color >= 0
    THEN <<"#">> \o ZeroPad(HexStr(color), 6)
    ELSE <<"#", "-">> \o ZeroPad(HexStr(-color), 5)

\* The labels of the catalog are Chinese; a character outside ASCII is
\* written as the string of its code point, "U+XXXX".

\* the table mode_names of get_mode_name
mode_names ==
    (1 :> <<"U+4ECE", "U+53F3", "U+81F3", "U+5DE6", "U+6EDA", "U+52A8">>)    \* 从右至左滚动
    @@ (4 :> <<"U+5E95", "U+7AEF", "U+56FA", "U+5B9A">>)    \* 底端固定
    @@ (5 :> <<"U+9876", "U+7AEF", "U+56FA", "U+5B9A">>)    \* 顶端固定
    @@ (6 :> <<"U+9006", "U+5411", "U+6EDA", "U+52A8">>)    \* 逆向滚动
    @@ (7 :> <<"U+7CBE", "U+786E", "U+5B9A", "U+4F4D">>)    \* 精确定位
    @@ (8 :> <<"U+9AD8", "U+7EA7", "U+5F39", "U+5E55">>)    \* 高级弹幕

\* faulty variant of get_mode_name: the default label leaves the code out
get_mode_name_plain_default(mode) ==
    IF mode \in DOMAIN mode_names THEN mode_names[mode]
    ELSE <<"U+672A", "U+77E5", "U+6A21", "U+5F0F">>

\* mode_names.get(mode, f"未知模式({mode})")
get_mode_name(mode) ==
    IF mode \in DOMAIN mode_names THEN mode_names[mode]
    ELSE <<"U+672A", "U+77E5", "U+6A21", "U+5F0F", "(">> \o DecStr(mode) \o <<")">>

\* the table size_names of get_font_size_name
size_names ==
    (12 :> <<"U+5C0F">>)    \* 小
    @@ (18 :> <<"U+6807", "U+51C6">>)    \* 标准
    @@ (25 :> <<"U+5927">>)    \* 大

\* size_names.get(size, f"自定义({size})")
get_font_size_name(size) ==
    IF size \in DOMAIN size_names THEN size_names[size]
    ELSE <<"U+81EA", "U+5B9A", "U+4E49", "(">> \o DecStr(size) \o <<")">>

(***************************************************************************)
(* Storage: table comment and comment_params_view.                         *)
(* t is held in milliseconds.                                              *)
(***************************************************************************)
EpisodeRows(e) == {r \in comments : r.episode_id = e}

StoreEmpty ==
    /\ comments = {}
    /\ nextId = 1
    /\ submitted = EmptyDict
    /\ dbType = "mysql"
    /\ view = "none"

\* the text after the first n commas of s
RECURSIVE AfterCommas(_, _)
AfterCommas(s, n) ==
    IF n = 0 THEN s
    ELSE IF s = <<>> THEN <<>>
    ELSE AfterCommas(Tail(s), IF Head(s) = "," THEN n - 1 ELSE n)

\* p REGEXP / p ~ '^[0-9.]+,[0-9]+,[0-9]+,[0-9]+,[0-9]+,[0-9]+,.+,.+'
MatchesViewRegex(p) ==
    LET parts == Split(p)
        rest == AfterCommas(p, 6)
    IN  /\ Len(parts) >= 8
        /\ Len(parts[1]) > 0
        /\ \A i \in 1..Len(parts[1]) : parts[1][i] \in Digits \cup {"."}
        /\ \A k \in 2..6 : Len(parts[k]) > 0 /\ AllDigits(parts[k])
        /\ \E i \in 2..(Len(rest) - 1) : rest[i] = ","

\* p LIKE '%,%,%,%,%,%,%,%'
MatchesViewLike(p) == Cardinality({i \in 1..Len(p) : p[i] = ","}) >= 7

\* the rows of comment_params_view for one episode
ViewRows(e) ==
    {r \in EpisodeRows(e) :
        IF view = "sqlite" THEN MatchesViewLike(r.p) ELSE MatchesViewRegex(r.p)}

ColumnField(col) == CASE col = "mode" -> 2 [] col = "font_size" -> 3 [] col = "color" -> 4

\* a column of a view row: the SQLite view defines mode, font_size and color as NULL
ViewColumn(r, col) ==
    IF view = "sqlite"
    THEN [null |-> TRUE]
    ELSE [null |-> FALSE, val |-> PyInt(Split(r.p)[ColumnField(col)]).val]

\* SELECT col, COUNT(*) FROM comment_params_view
\* WHERE episode_id = :episode_id AND col IS NOT NULL GROUP BY col
GroupedCount(e, col) ==
    LET rows == {r \in ViewRows(e) : ~ViewColumn(r, col).null}
        vals == {ViewColumn(r, col).val : r \in rows}
    IN  {<<v, Cardinality({r \in rows : ViewColumn(r, col).val = v})>> : v \in vals}

\* ORDER BY count DESC LIMIT 20 of the color query
ColorViewLimit == 20

\* the results ORDER BY count DESC LIMIT k can return
TopGroups(groups, k) ==
    {S \in SUBSET groups :
        /\ Cardinality(S) = IF Cardinality(groups) < k THEN Cardinality(groups) ELSE k
        /\ \A a \in S, b \in groups \ S : a[2] >= b[2]}

\* the label each distribution gives a decoded value
LabelOf(col, v) ==
    CASE col = "color" -> get_color_hex(v)
      [] col = "mode" -> get_mode_name(v)
      [] col = "font_size" -> get_font_size_name(v)

\* for value, count in result.all(): dist[label(value)] = count
\* (rows come by count descending, so a repeated label keeps its last, least count)
RelabelGroups(groups, col) ==
    LET labels == {LabelOf(col, g[1]) : g \in groups}
    IN  [l \in labels |->
            LET same == {g \in groups : LabelOf(col, g[1]) = l}
            IN  (CHOOSE g \in same : \A h \in same : g[2] <= h[2])[2]]

\* the samples select(Comment.p).where(episode_id == e).limit(limit) can return
Samples(e, limit) ==
    LET rows == EpisodeRows(e)
        n == IF Cardinality(rows) < limit THEN Cardinality(rows) ELSE limit
    IN  {S \in SUBSET rows : Cardinality(S) = n}

\* the rows of a sample, each with what parse_params_string makes of its p
DecodedSample(sample) == {<<r.id, ParseOutcome(r.p)>> : r \in sample}

\* faulty variant of PyDistribution: counts[label] = 1 instead of counts.get(label, 0) + 1
PyDistributionNoAccumulate(decoded, key) ==
    LET ok == {d \in decoded : key \in DOMAIN d[2].value}
        labels == {LabelOf(key, d[2].value[key]) : d \in ok}
    IN  [l \in labels |-> 1]

\* the tally of one *_via_python loop: for each row, if key in params:
\* counts[label] = counts.get(label, 0) + 1
PyDistribution(decoded, key) ==
    LET ok == {d \in decoded : key \in DOMAIN d[2].value}
        labelled == {<<d[1], LabelOf(key, d[2].value[key])>> : d \in ok}
        labels == {x[2] : x \in labelled}
    IN  [l \in labels |-> Cardinality({x \in labelled : x[2] = l})]

\* the sum of the counts of a distribution
RECURSIVE SumCounts(_)
SumCounts(d) ==
    IF DOMAIN d = {} THEN 0
    ELSE LET l == CHOOSE x \in DOMAIN d : TRUE
         IN  d[l] + SumCounts([x \in DOMAIN d \ {l} |-> d[x]])

(***************************************************************************)
(* Statistics: CommentRepository.get_danmaku_statistics and                *)
(* EnhancedCommentStatistics.get_comprehensive_statistics, one step per    *)
(* awaited query.  Every session.execute may raise.                        *)
(***************************************************************************)
DefaultPythonLimit == 1000

ViewPcs == {"view_color", "view_mode", "view_size"}
PyPcs == {"py_color", "py_mode", "py_size"}
BasicPcs == {"count", "avg", "timedist"}

StatsIdle ==
    /\ statsPc = "idle"
    /\ statsCall = [entry |-> "none"]
    /\ basic_stats = EmptyDict
    /\ dist = EmptyDict
    /\ statsLog = [raised |-> {}, scanned |-> EmptyDict, source |-> EmptyDict]
    /\ enhancedResult = [kind |-> "none"]
    /\ statsResult = [kind |-> "none"]

\* the column a distribution query is about
PcColumn(pc) ==
    CASE pc \in {"view_color", "py_color"} -> "color"
      [] pc \in {"view_mode", "py_mode"} -> "mode"
      [] pc \in {"view_size", "py_size"} -> "font_size"

\* the key of the result a distribution goes under
DistKey(col) ==
    CASE col = "color" -> "color_distribution"
      [] col = "mode" -> "mode_distribution"
      [] col = "font_size" -> "font_size_distribution"

\* if use_view: try the view first, else the Python path
FirstEnhancedPc(use_view) == IF use_view THEN "view_color" ELSE "py_color"

\* enhanced_stats.get_comprehensive_statistics(episode_id, use_view, python_limit)
CallComprehensive(e, use_view, python_limit) ==
    /\ statsPc = "idle"
    /\ statsCall' = [entry |-> "enhanced", episode_id |-> e, use_enhanced |-> TRUE,
                     use_view |-> use_view, python_limit |-> python_limit]
    /\ statsPc' = FirstEnhancedPc(use_view)
    /\ UNCHANGED <<basic_stats, dist, statsLog, enhancedResult, statsResult>>
    /\ UNCHANGED <<codecVars, storeVars, popVars, dupVars, listVars, simVars>>

\* repos.comment.get_danmaku_statistics(episode_id, use_enhanced, use_view)
CallStatistics(e, use_enhanced, use_view) ==
    /\ statsPc = "idle"
    /\ statsCall' = [entry |-> "repo", episode_id |-> e, use_enhanced |-> use_enhanced,
                     use_view |-> use_view, python_limit |-> DefaultPythonLimit]
    /\ statsPc' = "count"
    /\ UNCHANGED <<basic_stats, dist, statsLog, enhancedResult, statsResult>>
    /\ UNCHANGED <<codecVars, storeVars, popVars, dupVars, listVars, simVars>>

\* round half to even of num / den, for num >= 0 and den > 0
RoundHalfEven(num, den) ==
    LET q == num \div den
        r == num % den
    IN  IF 2 * r < den THEN q
        ELSE IF 2 * r > den THEN q + 1
        ELSE IF q % 2 = 0 THEN q ELSE q + 1

RECURSIVE SumT(_)
SumT(rows) ==
    IF rows = {} THEN 0
    ELSE LET r == CHOOSE x \in rows : TRUE IN r.t + SumT(rows \ {r})

\* round(avg(t) or 0, 2), in hundredths of a second
RoundedAvg(e) ==
    LET rows == EpisodeRows(e)
    IN  IF rows = {} THEN 0 ELSE RoundHalfEven(SumT(rows), 10 * Cardinality(rows))

\* SELECT floor(t / 60), count(id) ... GROUP BY floor(t / 60)
TimeDistribution(e) ==
    LET rows == EpisodeRows(e)
        minutes == {r.t \div 60000 : r \in rows}
    IN  [mi \in minutes |-> Cardinality({r \in rows : r.t \div 60000 = mi})]

\* the else branch and the except branch of get_danmaku_statistics
BasicOnly ==
    [color_distribution |-> EmptyDict, mode_distribution |-> EmptyDict,
     font_size_distribution |-> EmptyDict, statistics_method |-> "basic_only"]

\* one of the three basic queries raises: nothing catches it
BasicQueryRaises ==
    /\ statsPc \in BasicPcs
    /\ statsLog' = [statsLog EXCEPT !.raised = @ \cup {statsPc}]
    /\ statsResult' = [kind |-> "raise", exc |-> "SQLAlchemyError"]
    /\ statsPc' = "done"
    /\ UNCHANGED <<statsCall, basic_stats, dist, enhancedResult>>
    /\ UNCHANGED <<codecVars, storeVars, popVars, dupVars, listVars, simVars>>

\* total_count = total_result.scalar() or 0
CountQuery ==
    /\ statsPc = "count"
    /\ basic_stats' = [total_count |-> Cardinality(EpisodeRows(statsCall.episode_id))]
    /\ statsPc' = "avg"
    /\ UNCHANGED <<statsCall, dist, statsLog, enhancedResult, statsResult>>
    /\ UNCHANGED <<codecVars, storeVars, popVars, dupVars, listVars, simVars>>

\* avg_time = avg_result.scalar() or 0
AvgQuery ==
    /\ statsPc = "avg"
    /\ basic_stats' =
           [average_time_offset |-> RoundedAvg(statsCall.episode_id)] @@ basic_stats
    /\ statsPc' = "timedist"
    /\ UNCHANGED <<statsCall, dist, statsLog, enhancedResult, statsResult>>
    /\ UNCHANGED <<codecVars, storeVars, popVars, dupVars, listVars, simVars>>

\* time_distribution = dict(distribution_result.all()); then the use_enhanced branch
TimeDistQuery ==
    /\ statsPc = "timedist"
    /\ LET bs == [time_distribution |-> TimeDistribution(statsCall.episode_id)]
                     @@ basic_stats
       IN  IF statsCall.use_enhanced
           THEN /\ basic_stats' = bs
                /\ statsPc' = FirstEnhancedPc(statsCall.use_view)
                /\ UNCHANGED statsResult
           ELSE /\ basic_stats' = BasicOnly @@ bs
                /\ statsResult' = [kind |-> "return", value |-> BasicOnly @@ bs]
                /\ statsPc' = "done"
    /\ UNCHANGED <<statsCall, dist, statsLog, enhancedResult>>
    /\ UNCHANGED <<codecVars, storeVars, popVars, dupVars, listVars, simVars>>

\* basic_stats.update({...}) with the result of get_comprehensive_statistics
MergeEnhanced(bs, enh) ==
    LET merged == [color_distribution |-> enh.color_distribution,
                   mode_distribution |-> enh.mode_distribution,
                   font_size_distribution |-> enh.font_size_distribution,
                   statistics_method |-> enh.method] @@ bs
    IN  IF "sample_limit" \in DOMAIN enh
        THEN [sample_limit |-> enh.sample_limit] @@ merged
        ELSE merged

\* get_comprehensive_statistics returns value; get_danmaku_statistics merges it
ReturnEnhanced(value) ==
    /\ enhancedResult' = [kind |-> "return", value |-> value]
    /\ IF statsCall.entry = "repo"
       THEN /\ basic_stats' = MergeEnhanced(basic_stats, value)
            /\ statsResult' = [kind |-> "return",
                               value |-> MergeEnhanced(basic_stats, value)]
       ELSE UNCHANGED <<basic_stats, statsResult>>
    /\ statsPc' = "done"

\* faulty variant of RaiseEnhanced: the except branch makes a new dict
\* instead of updating basic_stats
RaiseEnhancedReplaces ==
    /\ enhancedResult' = [kind |-> "raise", exc |-> "SQLAlchemyError"]
    /\ IF statsCall.entry = "repo"
       THEN /\ basic_stats' = [enhanced_error |-> "SQLAlchemyError"] @@ BasicOnly
            /\ statsResult' =
                   [kind |-> "return",
                    value |-> [enhanced_error |-> "SQLAlchemyError"] @@ BasicOnly]
       ELSE UNCHANGED <<basic_stats, statsResult>>
    /\ statsPc' = "done"

\* get_comprehensive_statistics raises; get_danmaku_statistics catches it and
\* adds empty distributions, "basic_only" and enhanced_error
RaiseEnhanced ==
    /\ enhancedResult' = [kind |-> "raise", exc |-> "SQLAlchemyError"]
    /\ IF statsCall.entry = "repo"
       THEN /\ basic_stats' = [enhanced_error |-> "SQLAlchemyError"] @@ BasicOnly @@ basic_stats
            /\ statsResult' =
                   [kind |-> "return",
                    value |-> [enhanced_error |-> "SQLAlchemyError"] @@ BasicOnly @@ basic_stats]
       ELSE UNCHANGED <<basic_stats, statsResult>>
    /\ statsPc' = "done"

\* the grouped results a get_*_distribution_via_view query can return
ViewResults(e, pc) ==
    IF pc = "view_color"
    THEN TopGroups(GroupedCount(e, "color"), ColorViewLimit)
    ELSE {GroupedCount(e, PcColumn(pc))}

\* a view query fails by itself when comment_params_view does not exist
ViewQueryFails == view = "none"

\* get_*_distribution_via_view returns
ViewQueryOk ==
    /\ statsPc \in ViewPcs
    /\ ~ViewQueryFails
    /\ \E groups \in ViewResults(statsCall.episode_id, statsPc) :
          LET col == PcColumn(statsPc)
              d == (DistKey(col) :> RelabelGroups(groups, col)) @@ dist
          IN  /\ dist' = d
              /\ statsLog' = [statsLog EXCEPT !.source =
                                 (DistKey(col) :> "database_view") @@ @]
              /\ IF statsPc = "view_size"
                 THEN ReturnEnhanced([method |-> "database_view"] @@ d)
                 ELSE /\ statsPc' = IF statsPc = "view_color" THEN "view_mode" ELSE "view_size"
                      /\ UNCHANGED <<basic_stats, enhancedResult, statsResult>>
    /\ UNCHANGED statsCall
    /\ UNCHANGED <<codecVars, storeVars, popVars, dupVars, listVars, simVars>>

\* faulty variant of ViewQueryRaises: the except clause is missing and the error escapes
ViewQueryRaisesUncaught ==
    /\ statsPc \in ViewPcs
    /\ statsLog' = [statsLog EXCEPT !.raised = @ \cup {statsPc}]
    /\ RaiseEnhanced
    /\ UNCHANGED <<statsCall, dist>>
    /\ UNCHANGED <<codecVars, storeVars, popVars, dupVars, listVars, simVars>>

\* faulty variant of ViewQueryRaises: only the failed and the remaining
\* distributions are computed in Python, the native ones already made are kept
ViewQueryRaisesResume ==
    /\ statsPc \in ViewPcs
    /\ statsLog' = [statsLog EXCEPT !.raised = @ \cup {statsPc}]
    /\ statsPc' = CASE statsPc = "view_color" -> "py_color"
                    [] statsPc = "view_mode" -> "py_mode"
                    [] statsPc = "view_size" -> "py_size"
    /\ UNCHANGED <<statsCall, basic_stats, dist, enhancedResult, statsResult>>
    /\ UNCHANGED <<codecVars, storeVars, popVars, dupVars, listVars, simVars>>

\* a view query raises: except Exception prints and falls through to Python
ViewQueryRaises ==
    /\ statsPc \in ViewPcs
    /\ statsLog' = [statsLog EXCEPT !.raised = @ \cup {statsPc}]
    /\ statsPc' = "py_color"
    /\ UNCHANGED <<statsCall, basic_stats, dist, enhancedResult, statsResult>>
    /\ UNCHANGED <<codecVars, storeVars, popVars, dupVars, listVars, simVars>>

\* a Python tally over the sampled rows returns
PyQueryOk ==
    /\ statsPc \in PyPcs
    /\ \E sample \in Samples(statsCall.episode_id, statsCall.python_limit) :
          LET col == PcColumn(statsPc)
              decoded == DecodedSample(sample)
              tally == PyDistribution(decoded, col)
              d == (DistKey(col) :> tally) @@ dist
          IN  /\ \A x \in decoded : x[2].kind = "return"
              /\ dist' = d
              /\ statsLog' =
                     [statsLog EXCEPT !.scanned =
                         (statsPc :> [rows |-> Cardinality(sample),
                                      failures |-> Cardinality(
                                          {x \in decoded : x[2].value = EmptyDict})])
                         @@ @,
                                      !.source =
                         (DistKey(col) :> "python_parsing") @@ @]
              /\ IF statsPc = "py_size"
                 THEN ReturnEnhanced([method |-> "python_parsing",
                                      sample_limit |-> statsCall.python_limit] @@ d)
                 ELSE /\ statsPc' = IF statsPc = "py_color" THEN "py_mode" ELSE "py_size"
                      /\ UNCHANGED <<basic_stats, enhancedResult, statsResult>>
    /\ UNCHANGED statsCall
    /\ UNCHANGED <<codecVars, storeVars, popVars, dupVars, listVars, simVars>>

\* a query of the Python path raises: get_comprehensive_statistics has no handler
PyQueryRaises ==
    /\ statsPc \in PyPcs
    /\ statsLog' = [statsLog EXCEPT !.raised = @ \cup {statsPc}]
    /\ RaiseEnhanced
    /\ UNCHANGED <<statsCall, dist>>
    /\ UNCHANGED <<codecVars, storeVars, popVars, dupVars, listVars, simVars>>

(***************************************************************************)
(* Statistics specification: rows are inserted, the view is created for    *)
(* the configured engine, then one statistics call runs to its end.        *)
(***************************************************************************)
\* join fields with commas
RECURSIVE Join(_)
Join(fields) ==
    IF Len(fields) = 1 THEN fields[1]
    ELSE fields[1] \o <<",">> \o Join(Tail(fields))

F_id == <<"i", "d">>
F_hash == <<"h">>
F_zero == <<"0">>
F_one == <<"1">>

\* "23.5,1,25,16777215,1609459200,0,id,h"
P_White ==
    Join(<<(<<"2", "3", ".", "5">>), F_one, (<<"2", "5">>),
           (<<"1", "6", "7", "7", "7", "2", "1", "5">>),
           (<<"1", "6", "0", "9", "4", "5", "9", "2", "0", "0">>), F_zero, F_id, F_hash>>)
\* "1,4,18,255,0,0,id,h"
P_Blue ==
    Join(<<F_one, (<<"4">>), (<<"1", "8">>), (<<"2", "5", "5">>), F_zero, F_zero, F_id, F_hash>>)
\* "1,2,3": too few fields
P_Short == Join(<<F_one, (<<"2">>), (<<"3">>)>>)
\* "1,1,25,x,0,0,id,h": the color is not a number
P_BadColor ==
    Join(<<F_one, F_one, (<<"2", "5">>), (<<"x">>), F_zero, F_zero, F_id, F_hash>>)
\* "1,9,30,-1,0,0,id,h": unknown mode, custom size, negative color
P_Odd ==
    Join(<<F_one, (<<"9">>), (<<"3", "0">>), (<<"-", "1">>), F_zero, F_zero, F_id, F_hash>>)

StatsParams == {P_White, P_Blue, P_Short, P_BadColor, P_Odd}
StatsLimits == {1, DefaultPythonLimit}
Content_hi == <<"h", "i">>

\* the value column t keeps of an offset given in milliseconds: the MySQL
\* column is DECIMAL(10, 2) as the Comment model declares it and rounds to
\* hundredths, the PostgreSQL column is created DECIMAL(10, 3) by the
\* migration, SQLite does not enforce a scale
StoredT(t) == IF dbType = "mysql" THEN ((t + 5) \div 10) * 10 ELSE t

\* a row is added to table comment (autoincrement id)
InsertComment(e, p, m, t) ==
    /\ comments' = comments \cup
           {[id |-> nextId, episode_id |-> e, p |-> p, m |-> m, t |-> StoredT(t)]}
    /\ submitted' = (nextId :> t) @@ submitted
    /\ nextId' = nextId + 1
    /\ UNCHANGED <<dbType, view>>

\* create_comment_params_view(session, database_type) for the configured engine
CreateView ==
    /\ view = "none"
    /\ view' = dbType
    /\ UNCHANGED <<comments, nextId, submitted, dbType>>

StatsInit ==
    /\ CodecIdle
    /\ comments = {}
    /\ nextId = 1
    /\ submitted = EmptyDict
    /\ dbType \in {"mysql", "postgresql", "sqlite"}
    /\ view = "none"
    /\ StatsIdle
    /\ PopIdle
    /\ DupIdle
    /\ ListIdle
    /\ SimIdle

StatsInsert ==
    /\ statsPc = "idle"
    /\ Cardinality(comments) < MaxStatsRows
    /\ \/ \E p \in StatsParams : InsertComment(1, p, Content_hi, 0)
       \/ InsertComment(2, P_White, Content_hi, 0)
    /\ UNCHANGED <<codecVars, statsVars, popVars, dupVars, listVars, simVars>>

StatsCreateView ==
    /\ statsPc = "idle"
    /\ CreateView
    /\ UNCHANGED <<codecVars, statsVars, popVars, dupVars, listVars, simVars>>

StatsNext ==
    \/ StatsInsert
    \/ StatsCreateView
    \/ \E uv \in BOOLEAN, lim \in StatsLimits : CallComprehensive(1, uv, lim)
    \/ \E ue \in BOOLEAN, uv \in BOOLEAN : CallStatistics(1, ue, uv)
    \/ BasicQueryRaises
    \/ CountQuery
    \/ AvgQuery
    \/ TimeDistQuery
    \/ ViewQueryOk
    \/ ViewQueryRaises
    \/ PyQueryOk
    \/ PyQueryRaises

(***************************************************************************)
(* Basic statistics specification: rows with offsets around the minute     *)
(* boundaries are inserted, then one get_danmaku_statistics call runs.     *)
(***************************************************************************)
\* 0, 59.999, 60.0 and 599.99 seconds
BasicTimes == {0, 59999, 60000, 599990}

BasicInit ==
    /\ CodecIdle
    /\ comments = {}
    /\ nextId = 1
    /\ submitted = EmptyDict
    /\ dbType \in {"mysql", "postgresql", "sqlite"}
    /\ view = "none"
    /\ StatsIdle
    /\ PopIdle
    /\ DupIdle
    /\ ListIdle
    /\ SimIdle

BasicInsert ==
    /\ statsPc = "idle"
    /\ Cardinality(comments) < MaxStatsRows
    /\ \/ \E t \in BasicTimes : InsertComment(1, P_White, Content_hi, t)
       \/ InsertComment(2, P_White, Content_hi, 0)
    /\ UNCHANGED <<codecVars, statsVars, popVars, dupVars, listVars, simVars>>

BasicNext ==
    \/ BasicInsert
    \/ StatsCreateView
    \/ \E ue \in BOOLEAN, uv \in BOOLEAN : CallStatistics(1, ue, uv)
    \/ BasicQueryRaises
    \/ CountQuery
    \/ AvgQuery
    \/ TimeDistQuery
    \/ ViewQueryOk
    \/ ViewQueryRaises
    \/ PyQueryOk
    \/ PyQueryRaises

(***************************************************************************)
(* Statistics under concurrent writes: other sessions insert and delete    *)
(* comments of the episode and commit between the queries of a statistics  *)
(* call made with use_view=False.  MySQL connections are set to READ       *)
(* COMMITTED on connect and PostgreSQL runs at its default READ COMMITTED, *)
(* so every SELECT of the call reads the rows committed when it is         *)
(* executed.                                                               *)
(***************************************************************************)
\* repos.comment.delete(id) of another session, committed
DeleteComment(id) ==
    /\ comments' = {r \in comments : r.id # id}
    /\ UNCHANGED <<nextId, submitted, dbType, view>>

\* the params and offsets (0 and 60 seconds) of the comments written meanwhile
WriterParams == {P_White, P_Blue}
WriterTimes == {0, 60000}

StatsRaceInit ==
    /\ CodecIdle
    /\ comments = {}
    /\ nextId = 1
    /\ submitted = EmptyDict
    /\ dbType \in {"mysql", "postgresql"}
    /\ view = "none"
    /\ StatsIdle
    /\ PopIdle
    /\ DupIdle
    /\ ListIdle
    /\ SimIdle

StatsRaceInsert ==
    /\ nextId <= MaxStatsWrites
    /\ \E p \in WriterParams, t \in WriterTimes : InsertComment(1, p, Content_hi, t)
    /\ UNCHANGED <<codecVars, statsVars, popVars, dupVars, listVars, simVars>>

StatsRaceDelete ==
    /\ \E r \in comments : DeleteComment(r.id)
    /\ UNCHANGED <<codecVars, statsVars, popVars, dupVars, listVars, simVars>>

StatsRaceNext ==
    \/ StatsRaceInsert
    \/ StatsRaceDelete
    \/ \E lim \in StatsLimits : CallComprehensive(1, FALSE, lim)
    \/ \E ue \in BOOLEAN : CallStatistics(1, ue, FALSE)
    \/ BasicQueryRaises
    \/ CountQuery
    \/ AvgQuery
    \/ TimeDistQuery
    \/ PyQueryOk
    \/ PyQueryRaises

(***************************************************************************)
(* DensityDetector: CommentRepository.get_popular_danmaku, one step per    *)
(* awaited query.                                                          *)
(***************************************************************************)
\* c2.t BETWEEN c1.t - 5 AND c1.t + 5, in milliseconds
NearbyWindow == 5000

\* faulty variant of nearby_count: the window is open, c2.t > c1.t - 5 AND c2.t < c1.t + 5
nearby_count_open(c1) ==
    Cardinality({c2 \in comments :
        /\ c2.episode_id = c1.episode_id
        /\ c2.t > c1.t - NearbyWindow
        /\ c2.t < c1.t + NearbyWindow
        /\ c2.id # c1.id})

\* COUNT(c2.id) of the LEFT JOIN: the other rows of the same episode near c1
nearby_count(c1) ==
    Cardinality({c2 \in comments :
        /\ c2.episode_id = c1.episode_id
        /\ c2.t >= c1.t - NearbyWindow
        /\ c2.t <= c1.t + NearbyWindow
        /\ c2.id # c1.id})

\* the sequences that list every element of a finite set once
Orderings(S) ==
    {f \in [1..Cardinality(S) -> S] : \A i, j \in 1..Cardinality(S) : i # j => f[i] # f[j]}

\* the orders ORDER BY nearby_count DESC, c1.t ASC allows (ties fall either way)
RankOrders(e) ==
    {f \in Orderings(EpisodeRows(e)) :
        \A i \in 1..(Len(f) - 1) :
            \/ nearby_count(f[i]) > nearby_count(f[i + 1])
            \/ nearby_count(f[i]) = nearby_count(f[i + 1]) /\ f[i].t <= f[i + 1].t}

Min(a, b) == IF a < b THEN a ELSE b

\* LIMIT :limit with a negative limit: SQLite reads it as no limit,
\* MySQL and PostgreSQL reject the statement
NegativeLimitRaises == dbType # "sqlite"

\* repos.comment.get_popular_danmaku(episode_id, limit)
CallPopular(e, limit) ==
    /\ popPc = "idle"
    /\ popCall' = [episode_id |-> e, limit |-> limit]
    /\ popPc' = "rank"
    /\ UNCHANGED <<rank_rows, comment_ids, popResult>>
    /\ UNCHANGED <<codecVars, storeVars, statsVars, dupVars, listVars, simVars>>

\* a query of get_popular_danmaku raises: nothing catches it
PopQueryRaises ==
    /\ popPc \in {"rank", "load"}
    /\ popResult' = [kind |-> "raise", exc |-> "SQLAlchemyError"]
    /\ popPc' = "done"
    /\ UNCHANGED <<popCall, rank_rows, comment_ids>>
    /\ UNCHANGED <<codecVars, storeVars, statsVars, dupVars, listVars, simVars>>

\* the ranking query returns; comment_ids = [row[0] for row in result.all()];
\* an empty list is returned at once
RankQuery ==
    /\ popPc = "rank"
    /\ popCall.limit < 0 => ~NegativeLimitRaises
    /\ \E f \in RankOrders(popCall.episode_id) :
          LET k == IF popCall.limit < 0 THEN Len(f) ELSE Min(popCall.limit, Len(f))
              ids == [i \in 1..k |-> f[i].id]
          IN  /\ rank_rows' = [i \in 1..k |-> <<f[i].id, nearby_count(f[i])>>]
              /\ comment_ids' = ids
              /\ IF ids = <<>>
                 THEN /\ popResult' = [kind |-> "return", value |-> <<>>]
                      /\ popPc' = "done"
                 ELSE /\ popPc' = "load"
                      /\ UNCHANGED popResult
    /\ UNCHANGED popCall
    /\ UNCHANGED <<codecVars, storeVars, statsVars, dupVars, listVars, simVars>>

\* the lists select(Comment).where(Comment.id.in_(comment_ids)) can return:
\* the statement has no ORDER BY
LoadOrders(ids) ==
    Orderings({r \in comments : \E i \in 1..Len(ids) : ids[i] = r.id})

\* the second query returns the Comment objects
LoadQuery ==
    /\ popPc = "load"
    /\ \E f \in LoadOrders(comment_ids) :
          popResult' = [kind |-> "return", value |-> f]
    /\ popPc' = "done"
    /\ UNCHANGED <<popCall, rank_rows, comment_ids>>
    /\ UNCHANGED <<codecVars, storeVars, statsVars, dupVars, listVars, simVars>>

(***************************************************************************)
(* DuplicateResolver: DanmakuService.cleanup_duplicate_danmaku.            *)
(* A similarity is the exact fraction <<numerator, denominator>>; a        *)
(* threshold is held in hundredths.                                        *)
(***************************************************************************)
CharSet(s) == {s[i] : i \in 1..Len(s)}

Abs(x) == IF x < 0 THEN -x ELSE x

\* faulty variant of string_similarity: the empty check comes before s1 == s2
string_similarity_empty_first(s1, s2) ==
    IF s1 = <<>> \/ s2 = <<>> THEN <<0, 1>>
    ELSE IF s1 = s2 THEN <<1, 1>>
    ELSE <<Cardinality(CharSet(s1) \cap CharSet(s2)),
           Cardinality(CharSet(s1) \cup CharSet(s2))>>

\* _string_similarity(s1, s2)
string_similarity(s1, s2) ==
    IF s1 = s2 THEN <<1, 1>>
    ELSE IF s1 = <<>> \/ s2 = <<>> THEN <<0, 1>>
    ELSE LET common_chars == CharSet(s1) \cap CharSet(s2)
             all_chars == CharSet(s1) \cup CharSet(s2)
         IN  IF all_chars # {}
             THEN <<Cardinality(common_chars), Cardinality(all_chars)>>
             ELSE <<0, 1>>

\* faulty variant of time_similarity: time_diff is taken without abs()
time_similarity_signed(t1, t2) ==
    LET time_diff == t1 - t2
    IN  IF time_diff >= 5000 THEN <<0, 1>> ELSE <<5000 - time_diff, 5000>>

\* max(0, 1 - time_diff / 5.0), with the offsets in milliseconds
time_similarity(t1, t2) ==
    LET time_diff == Abs(t1 - t2)
    IN  IF time_diff >= 5000 THEN <<0, 1>> ELSE <<5000 - time_diff, 5000>>

\* faulty variant of calculate_danmaku_similarity: the weights 0.8 and 0.2 are swapped
SimilarityWeightsSwapped(danmaku1, danmaku2) ==
    LET cs == string_similarity(danmaku1.m, danmaku2.m)
        ts == time_similarity(danmaku1.t, danmaku2.t)
    IN  <<cs[1] * ts[2] + 4 * ts[1] * cs[2], 5 * cs[2] * ts[2]>>

\* _calculate_danmaku_similarity: content_similarity * 0.8 + time_similarity * 0.2
calculate_danmaku_similarity(danmaku1, danmaku2) ==
    LET cs == string_similarity(danmaku1.m, danmaku2.m)
        ts == time_similarity(danmaku1.t, danmaku2.t)
    IN  <<4 * cs[1] * ts[2] + ts[1] * cs[2], 5 * cs[2] * ts[2]>>

\* _calculate_danmaku_similarity(danmaku1, danmaku2) >= similarity_threshold
IsDuplicate(danmaku1, danmaku2, threshold) ==
    LET sim == calculate_danmaku_similarity(danmaku1, danmaku2)
    IN  100 * sim[1] >= threshold * sim[2]

\* faulty variant of InnerLoop: a comment is compared with the newest member of the group
RECURSIVE InnerLoopChain(_, _, _, _, _, _)
InnerLoopChain(all, i, j, threshold, group, processed) ==
    IF j > Len(all) THEN <<group, processed>>
    ELSE IF j \in processed THEN InnerLoopChain(all, i, j + 1, threshold, group, processed)
    ELSE IF IsDuplicate(group[Len(group)], all[j], threshold)
         THEN InnerLoopChain(all, i, j + 1, threshold, Append(group, all[j]), processed \cup {j})
         ELSE InnerLoopChain(all, i, j + 1, threshold, group, processed)

\* the inner loop: for j, danmaku2 in enumerate(all_danmaku[i+1:], i+1)
RECURSIVE InnerLoop(_, _, _, _, _, _)
InnerLoop(all, i, j, threshold, group, processed) ==
    IF j > Len(all) THEN <<group, processed>>
    ELSE IF j \in processed THEN InnerLoop(all, i, j + 1, threshold, group, processed)
    ELSE IF IsDuplicate(all[i], all[j], threshold)
         THEN InnerLoop(all, i, j + 1, threshold, Append(group, all[j]), processed \cup {j})
         ELSE InnerLoop(all, i, j + 1, threshold, group, processed)

\* faulty variant of OuterLoop: a grouped comment is not skipped as a later anchor
RECURSIVE OuterLoopNoSkip(_, _, _, _, _)
OuterLoopNoSkip(all, i, threshold, duplicates, processed) ==
    IF i > Len(all) THEN duplicates
    ELSE LET r == InnerLoop(all, i, i + 1, threshold, <<all[i]>>, {})
         IN  OuterLoopNoSkip(all, i + 1, threshold,
                       IF Len(r[1]) > 1 THEN Append(duplicates, r[1]) ELSE duplicates,
                       r[2] \cup {i})

\* the outer loop: for i, danmaku1 in enumerate(all_danmaku)
RECURSIVE OuterLoop(_, _, _, _, _)
OuterLoop(all, i, threshold, duplicates, processed) ==
    IF i > Len(all) THEN duplicates
    ELSE IF i \in processed THEN OuterLoop(all, i + 1, threshold, duplicates, processed)
    ELSE LET r == InnerLoop(all, i, i + 1, threshold, <<all[i]>>, processed)
         IN  OuterLoop(all, i + 1, threshold,
                       IF Len(r[1]) > 1 THEN Append(duplicates, r[1]) ELSE duplicates,
                       r[2] \cup {i})

\* the list duplicates the search leaves
FindDuplicates(all, threshold) == OuterLoop(all, 1, threshold, <<>>, {})

\* faulty variant of DeletionList: the loop runs over group instead of group[1:]
RECURSIVE DeletionListWhole(_)
DeletionListWhole(duplicates) ==
    IF duplicates = <<>> THEN <<>>
    ELSE Head(duplicates) \o DeletionListWhole(Tail(duplicates))

\* faulty variant of DeletionList: the loop runs over group[2:], so that the
\* first two members of every group are kept
RECURSIVE DeletionListKeepsTwo(_)
DeletionListKeepsTwo(duplicates) ==
    IF duplicates = <<>> THEN <<>>
    ELSE Tail(Tail(Head(duplicates))) \o DeletionListKeepsTwo(Tail(duplicates))

\* the rows the deletion loop visits, in order: group[1:] of every group
RECURSIVE DeletionList(_)
DeletionList(duplicates) ==
    IF duplicates = <<>> THEN <<>>
    ELSE Tail(Head(duplicates)) \o DeletionList(Tail(duplicates))

\* the orders of a set of rows by t ascending, rows of equal t either way
RECURSIVE OrderedByT(_)
OrderedByT(rows) ==
    IF rows = {} THEN {<<>>}
    ELSE UNION {{<<r>> \o f : f \in OrderedByT(rows \ {r})} :
                    r \in {x \in rows : \A y \in rows : x.t <= y.t}}

\* the lists get_danmaku_by_episode can return: ORDER BY t ASC
FetchOrders(e) == OrderedByT(EpisodeRows(e))

\* the rows of table episode
Episodes == {1, 2}

\* ServiceResult.error_result(...) of _handle_service_error
ErrorResult(code) == [kind |-> "return", success |-> FALSE, error_code |-> code]

\* ServiceResult.success_result(data)
SuccessResult(data) == [kind |-> "return", success |-> TRUE, data |-> data]

\* danmaku_service.cleanup_duplicate_danmaku(episode_id, similarity_threshold)
CallCleanup(c, e, threshold) ==
    /\ cleanup[c].pc = "idle"
    /\ cleanup' = [cleanup EXCEPT ![c] =
           [@ EXCEPT !.pc = "check", !.entry = "service", !.episode_id = e,
                     !.similarity_threshold = threshold,
                     !.after = {d \in Callers : cleanup[d].pc = "done"}]]
    /\ UNCHANGED <<codecVars, storeVars, statsVars, popVars, listVars, simVars>>

\* POST /danmaku/episode/{episode_id}/cleanup: Query(0.9, ge=0.1, le=1.0)
\* answers 422 without calling the service when the threshold is out of range
CallCleanupApi(c, e, threshold) ==
    /\ cleanup[c].pc = "idle"
    /\ cleanup' = [cleanup EXCEPT ![c] =
           IF threshold >= 10 /\ threshold <= 100
           THEN [@ EXCEPT !.pc = "check", !.entry = "api", !.episode_id = e,
                          !.similarity_threshold = threshold]
           ELSE [@ EXCEPT !.pc = "done", !.entry = "api", !.episode_id = e,
                          !.similarity_threshold = threshold,
                          !.result = [kind |-> "return", success |-> FALSE,
                                      error_code |-> "HTTP_422"]]]
    /\ UNCHANGED <<codecVars, storeVars, statsVars, popVars, listVars, simVars>>

\* _check_resource_exists(episode_id, "Episode", get_by_id)
CheckEpisode(c) ==
    /\ cleanup[c].pc = "check"
    /\ cleanup' = [cleanup EXCEPT ![c] =
           IF @.episode_id \in Episodes
           THEN [@ EXCEPT !.pc = "fetch", !.queries = @ + 1]
           ELSE [@ EXCEPT !.pc = "done", !.queries = @ + 1,
                          !.result = ErrorResult("RESOURCE_NOT_FOUND")]]
    /\ UNCHANGED <<codecVars, storeVars, statsVars, popVars, listVars, simVars>>

\* faulty variant of CleanupRaises: the deletions executed before the
\* exception are committed instead of rolled back
CleanupRaisesKeepsDeletes(c) ==
    /\ cleanup[c].pc \in {"check", "fetch", "delete", "commit"}
    /\ comments' = {r \in comments : r.id \notin cleanup[c].deleted}
    /\ cleanup' = [cleanup EXCEPT ![c] =
           [@ EXCEPT !.pc = "done", !.queries = @ + 1, !.deleted = {},
                     !.all_danmaku = <<>>, !.duplicates = <<>>, !.removed_count = 0,
                     !.raised_at = cleanup[c].pc, !.matched = {},
                     !.undone = cleanup[c].deleted,
                     !.result = ErrorResult("DATABASE_ERROR")]]
    /\ UNCHANGED <<nextId, submitted, dbType, view>>
    /\ UNCHANGED <<codecVars, statsVars, popVars, listVars, simVars>>

\* a query, a delete or the commit raises: transaction() rolls the session
\* back, the locals of the call are gone and _handle_service_error makes
\* the error result
CleanupRaises(c) ==
    /\ cleanup[c].pc \in {"check", "fetch", "delete", "commit"}
    /\ cleanup' = [cleanup EXCEPT ![c] =
           [@ EXCEPT !.pc = "done", !.queries = @ + 1, !.deleted = {},
                     !.all_danmaku = <<>>, !.duplicates = <<>>, !.removed_count = 0,
                     !.raised_at = cleanup[c].pc, !.matched = {},
                     !.undone = cleanup[c].deleted,
                     !.result = ErrorResult("DATABASE_ERROR")]]
    /\ UNCHANGED <<codecVars, storeVars, statsVars, popVars, listVars, simVars>>

\* all_danmaku = get_danmaku_by_episode(episode_id), the early return for
\* fewer than 2 rows, and the search for duplicates
FetchAndGroup(c) ==
    /\ cleanup[c].pc = "fetch"
    /\ \E all \in FetchOrders(cleanup[c].episode_id) :
          cleanup' = [cleanup EXCEPT ![c] =
             IF Len(all) < 2
             THEN [@ EXCEPT !.pc = "done", !.queries = @ + 1, !.all_danmaku = all,
                            !.result = SuccessResult(
                                [removed_count |-> 0, remaining_count |-> Len(all)])]
             ELSE LET dups == FindDuplicates(all, @.similarity_threshold)
                  IN  [@ EXCEPT !.pc = IF DeletionList(dups) = <<>> THEN "commit" ELSE "delete",
                                !.queries = @ + 1, !.all_danmaku = all,
                                !.compared = TRUE, !.duplicates = dups]]
    /\ UNCHANGED <<codecVars, storeVars, statsVars, popVars, listVars, simVars>>

\* the rows another session has deleted and not yet committed: a DELETE of
\* one of them waits for that session to end
LockedByOthers(c) == UNION {cleanup[d].matched : d \in {x \in Callers : x # c /\ cleanup[x].pc # "done"}}

\* await self.repos.comment.delete(danmaku.id); removed_count += 1.
\* DELETE ... WHERE id = :id matches no row when the row is gone; the
\* rowcount the repository returns is not looked at
DeleteNext(c) ==
    /\ cleanup[c].pc = "delete"
    /\ LET list == DeletionList(cleanup[c].duplicates)
           k == cleanup[c].removed_count + 1
       IN  /\ list[k].id \notin LockedByOthers(c)
           /\ cleanup' = [cleanup EXCEPT ![c] =
                 [@ EXCEPT !.deleted = @ \cup {list[k].id}, !.removed_count = k,
                           !.matched = @ \cup ({list[k].id} \cap {r.id : r \in comments}),
                           !.queries = @ + 1,
                           !.pc = IF k = Len(list) THEN "commit" ELSE "delete"]]
    /\ UNCHANGED <<codecVars, storeVars, statsVars, popVars, listVars, simVars>>

\* result_data: the episode and the cleanup_stats
CleanupStats(cl) ==
    [episode |-> [id |-> cl.episode_id],
     cleanup_stats |->
        [original_count |-> Len(cl.all_danmaku),
         duplicate_groups |-> Len(cl.duplicates),
         removed_count |-> cl.removed_count,
         remaining_count |-> Len(cl.all_danmaku) - cl.removed_count,
         similarity_threshold |-> cl.similarity_threshold]]

\* session.commit() at the end of the transaction block; the result is built
Commit(c) ==
    /\ cleanup[c].pc = "commit"
    /\ comments' = {r \in comments : r.id \notin cleanup[c].deleted}
    /\ cleanup' = [cleanup EXCEPT ![c] =
           [@ EXCEPT !.pc = "done", !.result = SuccessResult(CleanupStats(cleanup[c])),
                     !.stored_after = Cardinality(
                         {r \in EpisodeRows(cleanup[c].episode_id) :
                             r.id \notin cleanup[c].deleted})]]
    /\ UNCHANGED <<nextId, submitted, dbType, view>>
    /\ UNCHANGED <<codecVars, statsVars, popVars, listVars, simVars>>

(***************************************************************************)
(* Duplicate specification: one caller cleans an episode.                  *)
(***************************************************************************)
Content_ho == <<"h", "o">>
\* the comments of episode 1 to choose from: content and offset in milliseconds
DupRows ==
    {<<Content_hi, 0>>, <<Content_hi, 1000>>, <<Content_hi, 2000>>,
     <<Content_hi, 100000>>, <<Content_ho, 0>>}
DupThresholds == {-100, 50, 96}
ApiThresholds == {5, 96, 150}

DupInit ==
    /\ CodecIdle
    /\ comments = {}
    /\ nextId = 1
    /\ submitted = EmptyDict
    /\ dbType = "mysql"
    /\ view = "none"
    /\ StatsIdle
    /\ PopIdle
    /\ DupIdle
    /\ ListIdle
    /\ SimIdle

DupInsert ==
    /\ \A c \in Callers : cleanup[c].pc = "idle"
    /\ Cardinality(comments) < MaxDupRows
    /\ \/ \E r \in DupRows : InsertComment(1, P_White, r[1], r[2])
       \/ InsertComment(2, P_White, Content_hi, 0)
    /\ UNCHANGED <<codecVars, statsVars, popVars, dupVars, listVars, simVars>>

DupNext ==
    \/ DupInsert
    \/ \E th \in DupThresholds : CallCleanup(1, 1, th)
    \/ CallCleanup(1, 3, 96)
    \/ \E th \in ApiThresholds : CallCleanupApi(1, 1, th)
    \/ CheckEpisode(1)
    \/ CleanupRaises(1)
    \/ FetchAndGroup(1)
    \/ DeleteNext(1)
    \/ Commit(1)

(***************************************************************************)
(* Concurrent cleanup specification: two callers, each with a session of   *)
(* its own, clean episode 1 with the same threshold, one after the other   *)
(* or interleaved.                                                          *)
(***************************************************************************)
RaceRows == {<<Content_hi, 0>>, <<Content_hi, 1000>>, <<Content_hi, 100000>>}
RaceThreshold == 96

RaceInit == DupInit

RaceInsert ==
    /\ \A c \in Callers : cleanup[c].pc = "idle"
    /\ Cardinality(comments) < MaxRaceRows
    /\ \E r \in RaceRows : InsertComment(1, P_White, r[1], r[2])
    /\ UNCHANGED <<codecVars, statsVars, popVars, dupVars, listVars, simVars>>

RaceNext ==
    \/ RaceInsert
    \/ \E c \in Callers :
          \/ CallCleanup(c, 1, RaceThreshold)
          \/ CheckEpisode(c)
          \/ CleanupRaises(c)
          \/ FetchAndGroup(c)
          \/ DeleteNext(c)
          \/ Commit(c)

(***************************************************************************)
(* Popularity specification.                                               *)
(***************************************************************************)
PopTimes == {0, 1000, 5000, 100000}
PopLimits == {-1, 0, 1, 2, 50}

PopInit ==
    /\ CodecIdle
    /\ comments = {}
    /\ nextId = 1
    /\ submitted = EmptyDict
    /\ dbType \in {"mysql", "postgresql", "sqlite"}
    /\ view = "none"
    /\ StatsIdle
    /\ PopIdle
    /\ DupIdle
    /\ ListIdle
    /\ SimIdle

PopInsert ==
    /\ popPc = "idle"
    /\ Cardinality(comments) < MaxPopRows
    /\ \/ \E t \in PopTimes : InsertComment(1, P_White, Content_hi, t)
       \/ InsertComment(2, P_White, Content_hi, 0)
    /\ UNCHANGED <<codecVars, statsVars, popVars, dupVars, listVars, simVars>>

PopNext ==
    \/ PopInsert
    \/ \E limit \in PopLimits : CallPopular(1, limit)
    \/ PopQueryRaises
    \/ RankQuery
    \/ LoadQuery

(***************************************************************************)
(* CommentRepository.get_parsed_danmaku                                    *)
(***************************************************************************)
\* repos.comment.get_parsed_danmaku(episode_id, limit); limit None is held as 0
CallParsed(e, limit) ==
    /\ listing.pc = "idle"
    /\ listing' = [listing EXCEPT !.pc = "query", !.episode_id = e, !.limit = limit]
    /\ UNCHANGED <<codecVars, storeVars, statsVars, popVars, dupVars, simVars>>

\* the query of get_danmaku_by_episode raises: nothing catches it
ParsedQueryRaises ==
    /\ listing.pc = "query"
    /\ listing' = [listing EXCEPT !.pc = "done",
                                  !.result = [kind |-> "raise", exc |-> "SQLAlchemyError"]]
    /\ UNCHANGED <<codecVars, storeVars, statsVars, popVars, dupVars, simVars>>

\* the dict built for one row: the row's fields, then **params
parsed_data(r) ==
    [id |-> r.id, time_offset |-> r.t, content |-> r.m, raw_params |-> r.p]
        @@ parse_params_string(r.p)

\* get_danmaku_by_episode: ORDER BY t ASC, and LIMIT when limit is truthy
DanmakuList(e, limit) ==
    {SubSeq(f, 1, IF limit > 0 THEN Min(limit, Len(f)) ELSE Len(f)) : f \in FetchOrders(e)}

\* faulty variant of ParsedQueryOk: the rows read are deleted from the session
ParsedQueryOkExpunges ==
    /\ listing.pc = "query"
    /\ listing.limit < 0 => ~NegativeLimitRaises
    /\ \E danmaku_list \in DanmakuList(listing.episode_id, listing.limit) :
          /\ listing' = [listing EXCEPT
                 !.pc = "done",
                 !.result = [kind |-> "return",
                             value |-> [i \in 1..Len(danmaku_list) |->
                                           parsed_data(danmaku_list[i])]]]
          /\ comments' = comments \ {danmaku_list[i] : i \in 1..Len(danmaku_list)}
    /\ UNCHANGED <<nextId, submitted, dbType, view>>
    /\ UNCHANGED <<codecVars, statsVars, popVars, dupVars, simVars>>

\* the query returns and the loop decodes every row of the list
ParsedQueryOk ==
    /\ listing.pc = "query"
    /\ listing.limit < 0 => ~NegativeLimitRaises
    /\ \E danmaku_list \in DanmakuList(listing.episode_id, listing.limit) :
          listing' = [listing EXCEPT
              !.pc = "done",
              !.result = [kind |-> "return",
                          value |-> [i \in 1..Len(danmaku_list) |->
                                        parsed_data(danmaku_list[i])]]]
    /\ UNCHANGED <<codecVars, storeVars, statsVars, popVars, dupVars, simVars>>

(***************************************************************************)
(* Read-only operations specification: rows are inserted, then one of      *)
(* get_danmaku_statistics, get_comprehensive_statistics,                   *)
(* get_popular_danmaku and get_parsed_danmaku is called.                   *)
(***************************************************************************)
ReadParams == {P_White, P_Short}
ReadTimes == {0, 1000}
ReadLimits == {-1, 0, 1}

NoCall == statsPc = "idle" /\ popPc = "idle" /\ listing.pc = "idle"

ReadInit ==
    /\ CodecIdle
    /\ comments = {}
    /\ nextId = 1
    /\ submitted = EmptyDict
    /\ dbType \in {"mysql", "postgresql", "sqlite"}
    /\ view = "none"
    /\ StatsIdle
    /\ PopIdle
    /\ DupIdle
    /\ ListIdle
    /\ SimIdle

ReadInsert ==
    /\ NoCall
    /\ Cardinality(comments) < MaxStatsRows
    /\ \/ \E p \in ReadParams, t \in ReadTimes : InsertComment(1, p, Content_hi, t)
       \/ InsertComment(2, P_White, Content_hi, 0)
    /\ UNCHANGED <<codecVars, statsVars, popVars, dupVars, listVars, simVars>>

ReadNext ==
    \/ ReadInsert
    \/ NoCall /\ StatsCreateView
    \/ NoCall /\ \E uv \in BOOLEAN, lim \in StatsLimits : CallComprehensive(1, uv, lim)
    \/ NoCall /\ \E ue \in BOOLEAN, uv \in BOOLEAN : CallStatistics(1, ue, uv)
    \/ NoCall /\ \E limit \in ReadLimits : CallPopular(1, limit)
    \/ NoCall /\ \E limit \in ReadLimits : CallParsed(1, limit)
    \/ BasicQueryRaises
    \/ CountQuery
    \/ AvgQuery
    \/ TimeDistQuery
    \/ ViewQueryOk
    \/ ViewQueryRaises
    \/ PyQueryOk
    \/ PyQueryRaises
    \/ PopQueryRaises
    \/ RankQuery
    \/ LoadQuery
    \/ ParsedQueryRaises
    \/ ParsedQueryOk

(***************************************************************************)
(* Similarity specification: _string_similarity and                        *)
(* _calculate_danmaku_similarity are applied to texts and comments drawn   *)
(* from small sets.                                                        *)
(***************************************************************************)
SimContents == {<<>>, <<"h">>, Content_hi, <<"i", "h">>, Content_ho}
SimTimes == {0, 1000, 4999, 5000, 100000}
SimComments == [m : SimContents, t : SimTimes]

SimInit ==
    /\ CodecIdle
    /\ StoreEmpty
    /\ StatsIdle
    /\ PopIdle
    /\ DupIdle
    /\ ListIdle
    /\ SimIdle

\* self._string_similarity(s1, s2)
CallStringSimilarity(s1, s2) ==
    /\ simCall' = [fn |-> "string", s1 |-> s1, s2 |-> s2,
                   value |-> string_similarity(s1, s2)]
    /\ UNCHANGED <<codecVars, storeVars, statsVars, popVars, dupVars, listVars>>

\* self._calculate_danmaku_similarity(danmaku1, danmaku2)
CallDanmakuSimilarity(danmaku1, danmaku2) ==
    /\ simCall' = [fn |-> "danmaku", danmaku1 |-> danmaku1, danmaku2 |-> danmaku2,
                   value |-> calculate_danmaku_similarity(danmaku1, danmaku2)]
    /\ UNCHANGED <<codecVars, storeVars, statsVars, popVars, dupVars, listVars>>

SimNext ==
    \/ \E s1 \in SimContents, s2 \in SimContents : CallStringSimilarity(s1, s2)
    \/ \E d1 \in SimComments, d2 \in SimComments : CallDanmakuSimilarity(d1, d2)

(***************************************************************************)
(* Codec specification: a packed string is built field by field, then      *)
(* parse_params_string is applied to it.                                   *)
(***************************************************************************)
PlainField == <<"7">>
FieldPool ==
    {PlainField, <<"2", "3", ".", "5">>, <<"-", "1">>, <<"x">>, <<>>,
     F_one, <<"2", "5">>, <<"1", "6", "7", "7", "7", "2", "1", "6">>}

OddCount(s) == Len(SelectSeq(Split(s), LAMBDA f : f # PlainField))

CodecInit ==
    /\ params \in FieldPool
    /\ parsed = [kind |-> "none"]
    /\ codecPc = "build"
    /\ row_labels = [kind |-> "none"]
    /\ StoreEmpty
    /\ StatsIdle
    /\ PopIdle
    /\ DupIdle
    /\ ListIdle
    /\ SimIdle

\* the caller extends the packed string by one more comma-separated field
AppendField(f) ==
    /\ codecPc = "build"
    /\ Len(Split(params)) < MaxFields
    /\ (f = PlainField \/ OddCount(params) < MaxOdd)
    /\ params' = params \o <<",">> \o f
    /\ UNCHANGED <<parsed, codecPc, row_labels, storeVars, statsVars, popVars, dupVars, listVars, simVars>>

\* parser.parse_params_string(params)
Decode ==
    /\ codecPc = "build"
    /\ parsed' = ParseOutcome(params)
    /\ codecPc' = "done"
    /\ UNCHANGED <<params, row_labels, storeVars, statsVars, popVars, dupVars, listVars, simVars>>

\* the body of the *_via_python loops for a decoded row: if params: the
\* catalog label of its color, mode and font size
LabelDecoded ==
    /\ codecPc = "done"
    /\ parsed.kind = "return"
    /\ parsed.value # EmptyDict
    /\ row_labels' = [kind |-> "labels",
                  color |-> LabelOf("color", parsed.value.color),
                  mode |-> LabelOf("mode", parsed.value.mode),
                  font_size |-> LabelOf("font_size", parsed.value.font_size)]
    /\ codecPc' = "labelled"
    /\ UNCHANGED <<params, parsed, storeVars, statsVars, popVars, dupVars, listVars, simVars>>

CodecNext ==
    \/ \E f \in FieldPool : AppendField(f)
    \/ Decode
    \/ LabelDecoded

vars == <<codecVars, storeVars, statsVars, popVars, dupVars, listVars, simVars>>

SpecCodec == CodecInit /\ [][CodecNext]_vars

SpecStats == StatsInit /\ [][StatsNext]_vars

SpecPop == PopInit /\ [][PopNext]_vars

SpecDup == DupInit /\ [][DupNext]_vars

SpecBasic == BasicInit /\ [][BasicNext]_vars

SpecRead == ReadInit /\ [][ReadNext]_vars

SpecSim == SimInit /\ [][SimNext]_vars

SpecRace == RaceInit /\ [][RaceNext]_vars
SpecStatsRace == StatsRaceInit /\ [][StatsRaceNext]_vars

(***************************************************************************)
(* C1: decode is all-or-nothing.  parse_params_string never raises; it     *)
(* returns either a dict holding all eight keys or the empty dict, and it  *)
(* returns the empty dict whenever the input has fewer than 8 fields or    *)
(* one of its first six fields is not a number.                            *)
(***************************************************************************)
CommaCount(s) == Cardinality({i \in 1..Len(s) : s[i] = ","})

IsNumberField(s, i) ==
    IF i = 1 THEN PyFloat(Split(s)[1]).ok ELSE PyInt(Split(s)[i]).ok

C1_DecodeAllOrNothing ==
    codecPc = "done" =>
        /\ parsed.kind = "return"
        /\ DOMAIN parsed.value \in {{}, ParamKeys}
        /\ (CommaCount(params) < 7 => parsed.value = EmptyDict)
        /\ (CommaCount(params) >= 7 /\ (\E i \in 1..6 : ~IsNumberField(params, i))
              => parsed.value = EmptyDict)

C1_Witness ==
    /\ codecPc = "done"
    /\ CommaCount(params) >= 7
    /\ \E i \in 2..6 : ~IsNumberField(params, i)
    /\ parsed.kind = "return"
    /\ parsed.value = EmptyDict

(***************************************************************************)
(* C2 (as claimed): when a native (view) distribution query raises, the    *)
(* aggregate returns a result tagged python_parsing, from                  *)
(* get_comprehensive_statistics and from get_danmaku_statistics alike; no  *)
(* exception reaches the caller and no other tag appears.                  *)
(***************************************************************************)
NativeRaised == statsLog.raised \cap ViewPcs # {}
FallbackRaised == statsLog.raised \cap PyPcs # {}

C2_FallbackAlwaysReturns ==
    (statsPc = "done" /\ NativeRaised) =>
        /\ enhancedResult.kind = "return"
        /\ enhancedResult.value.method = "python_parsing"
        /\ statsCall.entry = "repo" =>
              /\ statsResult.kind = "return"
              /\ statsResult.value.statistics_method = "python_parsing"

(***************************************************************************)
(* C2 (amended): when a native distribution query raises and the queries   *)
(* of the Python path succeed, get_comprehensive_statistics returns a      *)
(* result tagged python_parsing and get_danmaku_statistics passes the tag  *)
(* on.  When a query of the Python path raises as well,                    *)
(* get_comprehensive_statistics raises, and get_danmaku_statistics still   *)
(* returns: a result tagged basic_only with empty distributions and an     *)
(* enhanced_error.  The tag of a result is database_view, python_parsing   *)
(* or basic_only.                                                          *)
(***************************************************************************)
C2_FallbackUnlessItRaises ==
    /\ (statsPc = "done" /\ NativeRaised /\ ~FallbackRaised) =>
          /\ enhancedResult.kind = "return"
          /\ enhancedResult.value.method = "python_parsing"
          /\ statsCall.entry = "repo" =>
                /\ statsResult.kind = "return"
                /\ statsResult.value.statistics_method = "python_parsing"
    /\ (statsPc = "done" /\ NativeRaised /\ FallbackRaised) =>
          /\ enhancedResult.kind = "raise"
          /\ statsCall.entry = "repo" =>
                /\ statsResult.kind = "return"
                /\ statsResult.value.statistics_method = "basic_only"
                /\ statsResult.value.color_distribution = EmptyDict
                /\ statsResult.value.mode_distribution = EmptyDict
                /\ statsResult.value.font_size_distribution = EmptyDict
                /\ "enhanced_error" \in DOMAIN statsResult.value
    /\ enhancedResult.kind = "return" =>
          enhancedResult.value.method \in {"database_view", "python_parsing"}
    /\ statsResult.kind = "return" =>
          statsResult.value.statistics_method \in
              {"database_view", "python_parsing", "basic_only"}

C2_Witness ==
    /\ statsPc = "done"
    /\ statsCall.entry = "repo"
    /\ "view_mode" \in statsLog.raised
    /\ ~FallbackRaised
    /\ statsResult.kind = "return"
    /\ statsResult.value.statistics_method = "python_parsing"
    /\ SumCounts(statsResult.value.color_distribution) > 0

(***************************************************************************)
(* C3 (as claimed): with the SQLite view, whose mode, font_size and color  *)
(* are NULL, an aggregate asked for the native strategy comes back tagged  *)
(* python_parsing; it is never a database_view result with empty           *)
(* distributions for an episode that has decodable comments.               *)
(***************************************************************************)
HasDecodable(e) == \E r \in EpisodeRows(e) : parse_params_string(r.p) # EmptyDict

C3_SqliteViewFallsBack ==
    (/\ statsPc = "done"
     /\ statsCall.use_enhanced
     /\ statsCall.use_view
     /\ view = "sqlite"
     /\ enhancedResult.kind = "return"
     /\ HasDecodable(statsCall.episode_id)) =>
        /\ enhancedResult.value.method = "python_parsing"
        /\ enhancedResult.value.color_distribution # EmptyDict

(***************************************************************************)
(* C4: aggregation conservation.  Every count of a distribution is         *)
(* non-negative and the counts of a distribution sum to at most the number *)
(* of rows of the episode; a distribution tallied in Python sums to the    *)
(* rows its query fetched minus those that failed to decode, and a row     *)
(* that fails to decode does not abort the aggregation.                    *)
(***************************************************************************)
PyQueryOf(key) ==
    CASE key = "color_distribution" -> "py_color"
      [] key = "mode_distribution" -> "py_mode"
      [] key = "font_size_distribution" -> "py_size"

DistKeys == {"color_distribution", "mode_distribution", "font_size_distribution"}

C4_AggregationConservation ==
    /\ \A key \in DOMAIN dist :
          /\ \A l \in DOMAIN dist[key] : dist[key][l] >= 0
          /\ SumCounts(dist[key]) <= Cardinality(EpisodeRows(statsCall.episode_id))
          /\ PyQueryOf(key) \in DOMAIN statsLog.scanned =>
                /\ statsLog.scanned[PyQueryOf(key)].rows <= statsCall.python_limit
                /\ SumCounts(dist[key]) =
                       statsLog.scanned[PyQueryOf(key)].rows
                         - statsLog.scanned[PyQueryOf(key)].failures
    /\ enhancedResult.kind = "return" =>
          \A key \in DistKeys : enhancedResult.value[key] = dist[key]
    /\ (statsPc = "done" /\ ~FallbackRaised /\ "py_size" \in DOMAIN statsLog.scanned) =>
          /\ enhancedResult.kind = "return"
          /\ enhancedResult.value.method = "python_parsing"

C4_Witness ==
    /\ statsPc = "done"
    /\ enhancedResult.kind = "return"
    /\ enhancedResult.value.method = "python_parsing"
    /\ statsLog.scanned["py_color"].rows = 2
    /\ statsLog.scanned["py_color"].failures = 1
    /\ SumCounts(enhancedResult.value.color_distribution) = 1

(***************************************************************************)
(* C5-C10: popularity ranking and duplicate cleanup.                       *)
(***************************************************************************)
\* C5: the list get_popular_danmaku returns is in rank order: of any two
\* adjacent comments the earlier one has a strictly higher nearby_count, or
\* an equal nearby_count and a t that is not later, and the list holds the
\* first `limit` comments of the ranking.
C5_PopularInRankOrder ==
    (popPc = "done" /\ popResult.kind = "return" /\ popCall.limit >= 0) =>
        /\ \E f \in RankOrders(popCall.episode_id) :
              {popResult.value[i] : i \in 1..Len(popResult.value)}
                  = {f[i] : i \in 1..Min(popCall.limit, Len(f))}
        /\ \A i \in 1..(Len(popResult.value) - 1) :
              LET a == popResult.value[i]
                  b == popResult.value[i + 1]
              IN  \/ nearby_count(a) > nearby_count(b)
                  \/ nearby_count(a) = nearby_count(b) /\ a.t <= b.t

\* caller 1 has fetched the rows and searched them for duplicates
Searched == cleanup[1].compared

\* the rows fetched are A(t=0,"hi"), B(t=1,"hi"), C(t=100,"hi"), in that order
IsExampleInput ==
    LET all == cleanup[1].all_danmaku
    IN  /\ Searched
        /\ Len(all) = 3
        /\ \A i \in 1..3 : all[i].m = Content_hi
        /\ all[1].t = 0 /\ all[2].t = 1000 /\ all[3].t = 100000

\* C6 as stated: on the example input with threshold 0.5 the search returns
\* exactly one group, [A, B]; C is in no group.
C6_ExampleGroupAB ==
    (IsExampleInput /\ cleanup[1].similarity_threshold = 50) =>
        cleanup[1].duplicates = <<SubSeq(cleanup[1].all_danmaku, 1, 2)>>

\* C6 amended: on the example input with threshold 0.5 the search returns
\* exactly one group, [A, B, C], A first: identical content alone gives
\* similarity 0.8. With threshold 0.96, which the similarity of A and B
\* just reaches, the one group is [A, B] and C is in no group.
C6_ExampleGroupABC ==
    IsExampleInput =>
        /\ cleanup[1].similarity_threshold = 50 =>
              cleanup[1].duplicates = <<cleanup[1].all_danmaku>>
        /\ cleanup[1].similarity_threshold = 96 =>
              cleanup[1].duplicates = <<SubSeq(cleanup[1].all_danmaku, 1, 2)>>

C6_Witness ==
    /\ IsExampleInput
    /\ cleanup[1].similarity_threshold = 50
    /\ Len(cleanup[1].duplicates) = 1

\* C7: no comment id appears in two groups of the search, nor twice in one
\* group, and every member of a group is a row of the input.
C7_GroupsDisjoint ==
    LET d == cleanup[1].duplicates
        all == cleanup[1].all_danmaku
    IN  /\ \A g1, g2 \in 1..Len(d) :
              \A k1 \in 1..Len(d[g1]), k2 \in 1..Len(d[g2]) :
                  d[g1][k1].id = d[g2][k2].id => (g1 = g2 /\ k1 = k2)
        /\ \A g \in 1..Len(d) : \A k \in 1..Len(d[g]) :
              \E i \in 1..Len(all) : all[i] = d[g][k]

\* two groups were found
C7_Witness ==
    /\ Searched
    /\ Len(cleanup[1].duplicates) = 2

\* the position of a row in the input list
IndexIn(all, id) == CHOOSE i \in 1..Len(all) : all[i].id = id

\* the ids of the first members of the groups
AnchorIds(d) == {d[g][1].id : g \in 1..Len(d)}

\* the ids of the members at positions 1 and later (0-based) of the groups
CandidateIds(d) == UNION {{d[g][k].id : k \in 2..Len(d[g])} : g \in 1..Len(d)}

\* C8: element 0 of every group is the member that comes first in input
\* order; no anchor is a deletion candidate of any group; the cleanup deletes
\* only candidates, and once it has committed, the episode holds exactly the
\* fetched rows minus all candidates.
C8_AnchorSurvives ==
    LET cl == cleanup[1]
        d == cl.duplicates
        all == cl.all_danmaku
    IN  /\ \A g \in 1..Len(d) : \A k \in 2..Len(d[g]) :
              IndexIn(all, d[g][1].id) < IndexIn(all, d[g][k].id)
        /\ AnchorIds(d) \cap CandidateIds(d) = {}
        /\ cl.deleted \subseteq CandidateIds(d)
        /\ (Searched /\ cl.pc = "done" /\ cl.result.success) =>
              /\ cl.deleted = CandidateIds(d)
              /\ {r.id : r \in EpisodeRows(cl.episode_id)}
                    = {all[i].id : i \in 1..Len(all)} \ CandidateIds(d)
              /\ cl.result.data.cleanup_stats.removed_count = Cardinality(CandidateIds(d))

\* a cleanup with two groups has committed its deletions
C8_Witness ==
    /\ Searched
    /\ cleanup[1].pc = "done"
    /\ cleanup[1].result.success
    /\ Len(cleanup[1].duplicates) = 2
    /\ cleanup[1].deleted # {}

\* the increasing enumeration of a finite set of integers
SortedSeq(S) ==
    [k \in 1..Cardinality(S) |->
        CHOOSE x \in S : Cardinality({y \in S : y < x}) = k - 1]

\* admits[i]: the later positions whose similarity to position i is >= the threshold
Admitted(all, threshold) ==
    [i \in 1..Len(all) |->
        {j \in (i + 1)..Len(all) : IsDuplicate(all[i], all[j], threshold)}]

\* A is the set of anchor positions: a position is an anchor exactly when no
\* earlier anchor admits it
IsGreedyAnchors(n, admits, A) ==
    \A j \in 1..n : j \in A <=> \A i \in A : j \notin admits[i]

\* the labelling that sends every position to the position of its anchor:
\* the first anchor that admits it, or itself when there is none
AnchorOf(n, admits, A) ==
    [j \in 1..n |->
        IF \A i \in A : j \notin admits[i] THEN j
        ELSE CHOOSE i \in A : j \in admits[i] /\ \A h \in A : j \in admits[h] => i <= h]

\* the groups of a labelling: anchors in input order, members in input
\* order, groups of one member left out
GroupsOf(all, g) ==
    LET anchors == SortedSeq({a \in 1..Len(all) :
                        g[a] = a /\ \E j \in 1..Len(all) : j # a /\ g[j] = a})
    IN  [k \in 1..Len(anchors) |->
            LET ms == SortedSeq({j \in 1..Len(all) : g[j] = anchors[k]})
            IN  [n \in 1..Len(ms) |-> all[ms[n]]]]

\* the search of caller 1 has returned its groups and no delete has run yet
SearchReturned ==
    /\ Searched
    /\ cleanup[1].pc \in {"delete", "commit"}
    /\ cleanup[1].removed_count = 0

\* C9: the groups are those of the greedy anchor-only labelling: a comment
\* joins the first earlier anchor whose similarity to it is >= the threshold,
\* similarity to a non-anchor member admits nothing, and a group of one
\* member is not returned.
C9_GreedyAnchorOnly ==
    SearchReturned =>
        /\ \E all \in {cleanup[1].all_danmaku} :
           \E admits \in {Admitted(all, cleanup[1].similarity_threshold)} :
           \E A \in SUBSET (1..Len(all)) :
              /\ IsGreedyAnchors(Len(all), admits, A)
              /\ \E g \in {AnchorOf(Len(all), admits, A)} :
                    cleanup[1].duplicates = GroupsOf(all, g)
        /\ \A g \in 1..Len(cleanup[1].duplicates) : Len(cleanup[1].duplicates[g]) > 1

\* a comment similar to a non-anchor member of a group, but not to the
\* anchor, stayed out of the group and, alone, out of the result
C9_Witness ==
    LET cl == cleanup[1]
        d == cl.duplicates
    IN  /\ SearchReturned
        /\ \E g \in 1..Len(d) : \E k \in 2..Len(d[g]) :
              \E i \in 1..Len(cl.all_danmaku) :
                  /\ IndexIn(cl.all_danmaku, d[g][k].id) < i
                  /\ IsDuplicate(d[g][k], cl.all_danmaku[i], cl.similarity_threshold)
                  /\ ~IsDuplicate(d[g][1], cl.all_danmaku[i], cl.similarity_threshold)
                  /\ cl.all_danmaku[i].id \notin AnchorIds(d) \cup CandidateIds(d)

\* C10: a cleanup called with a threshold outside [0,1] issues no query,
\* computes no similarity, deletes no row and ends with an error result; a
\* popularity query called with a negative limit ends with an error before
\* its ranking query is issued.
C10_InvalidArgumentsRejected ==
    /\ \A c \in Callers :
          (cleanup[c].pc # "idle"
              /\ (cleanup[c].similarity_threshold < 0 \/ cleanup[c].similarity_threshold > 100)) =>
             /\ cleanup[c].pc = "done"
             /\ ~cleanup[c].result.success
             /\ cleanup[c].queries = 0
             /\ ~cleanup[c].compared
             /\ cleanup[c].deleted = {}
    /\ (popPc # "idle" /\ popCall.limit < 0) =>
          popPc = "done" /\ popResult.kind = "raise" /\ comment_ids = <<>>

(***************************************************************************)
(* C11-C20: result tags, basic statistics, codec details, read-only        *)
(* operations.                                                             *)
(***************************************************************************)
\* the three distributions of the result all come from the path its tag names
OnePathUnderTag(value, tag) ==
    \A key \in DistKeys :
        /\ key \in DOMAIN value
        /\ key \in DOMAIN statsLog.source
        /\ statsLog.source[key] = tag

\* C11 as stated: the tag of the result names the one path that produced
\* all three distributions; sample_limit is present exactly when the result
\* is tagged python_parsing, and its value is the number of rows scanned.
C11_SampleLimitIsRowsScanned ==
    enhancedResult.kind = "return" =>
        LET value == enhancedResult.value
        IN  /\ OnePathUnderTag(value, value.method)
            /\ "sample_limit" \in DOMAIN value <=> value.method = "python_parsing"
            /\ value.method = "python_parsing" =>
                  \A pc \in PyPcs : value.sample_limit = statsLog.scanned[pc].rows

\* C11 amended: the tag of the result names the one path that produced all
\* three distributions; sample_limit is present exactly when the result is
\* tagged python_parsing, and its value is the python_limit argument, the
\* cap on the rows each tally fetches: a tally scans min(python_limit, rows
\* of the episode) rows.  get_danmaku_statistics passes tag and
\* sample_limit on, and has no sample_limit under basic_only.
C11_SampleLimitIsTheCap ==
    /\ enhancedResult.kind = "return" =>
          LET value == enhancedResult.value
          IN  /\ OnePathUnderTag(value, value.method)
              /\ "sample_limit" \in DOMAIN value <=> value.method = "python_parsing"
              /\ value.method = "python_parsing" =>
                    /\ value.sample_limit = statsCall.python_limit
                    /\ \A pc \in PyPcs :
                          statsLog.scanned[pc].rows =
                              Min(statsCall.python_limit,
                                  Cardinality(EpisodeRows(statsCall.episode_id)))
    /\ statsResult.kind = "return" =>
          LET value == statsResult.value
          IN  /\ value.statistics_method # "basic_only" =>
                    /\ enhancedResult.kind = "return"
                    /\ value.statistics_method = enhancedResult.value.method
                    /\ \A key \in DistKeys : value[key] = enhancedResult.value[key]
              /\ "sample_limit" \in DOMAIN value <=>
                    value.statistics_method = "python_parsing"
              /\ value.statistics_method = "python_parsing" =>
                    value.sample_limit = DefaultPythonLimit

\* a native distribution was made, a later native query raised, and the
\* result is all Python, its sample_limit above the two rows scanned
C11_Witness ==
    /\ statsPc = "done"
    /\ statsLog.raised = {"view_mode"}
    /\ enhancedResult.kind = "return"
    /\ enhancedResult.value.method = "python_parsing"
    /\ enhancedResult.value.sample_limit = DefaultPythonLimit
    /\ statsLog.scanned["py_color"].rows = 2

\* C12: total_count, average_time_offset and time_distribution are present
\* in every result of get_danmaku_statistics, and their values are those of
\* the stored comments of the episode alone: the same with or without the
\* enhanced step, with either strategy, and whether or not a distribution
\* query raised.
C12_BasicStatsIndependent ==
    (statsCall.entry = "repo" /\ statsResult.kind = "return") =>
        LET value == statsResult.value
            e == statsCall.episode_id
        IN  /\ {"total_count", "average_time_offset", "time_distribution"}
                  \subseteq DOMAIN value
            /\ value.total_count = Cardinality(EpisodeRows(e))
            /\ value.average_time_offset = RoundedAvg(e)
            /\ value.time_distribution = TimeDistribution(e)

\* both the native and the fallback queries raised, and the result still
\* holds the basic statistics of two comments in different minutes
C12_Witness ==
    /\ statsPc = "done"
    /\ statsResult.kind = "return"
    /\ NativeRaised /\ FallbackRaised
    /\ statsResult.value.statistics_method = "basic_only"
    /\ statsResult.value.total_count = 2
    /\ Cardinality(DOMAIN statsResult.value.time_distribution) = 2
    /\ statsResult.value.average_time_offset > 0

\* C13: time_distribution counts every comment under floor(t / 60) of the
\* offset it was submitted with, minutes counted from 0: 59.999 is in
\* minute 0, 60.0 in minute 1, 599.99 in minute 9.
C13_MinuteBuckets ==
    (statsCall.entry = "repo" /\ statsResult.kind = "return") =>
        LET ids == {r.id : r \in EpisodeRows(statsCall.episode_id)}
            minutes == {submitted[i] \div 60000 : i \in ids}
        IN  statsResult.value.time_distribution =
                [mi \in minutes |->
                    Cardinality({i \in ids : submitted[i] \div 60000 = mi})]

\* the fields of the packed string
Fields == Split(params)

\* the first six fields convert: float() takes the first, int() the others
FirstSixConvert ==
    /\ Len(Fields) >= 6
    /\ PyFloat(Fields[1]).ok
    /\ \A i \in 2..6 : PyInt(Fields[i]).ok

Decoded == codecPc # "build" /\ parsed.kind = "return" /\ parsed.value # EmptyDict

\* C14: a packed string of exactly seven fields whose first six convert is
\* decoded to a complete record, with user_hash the empty string.
C14_SevenFieldsAccepted ==
    (codecPc # "build" /\ Len(Fields) = 7 /\ FirstSixConvert) =>
        /\ parsed.kind = "return"
        /\ DOMAIN parsed.value = ParamKeys
        /\ parsed.value.user_hash = <<>>

\* C15: every decoded record has 0 <= color <= 0xFFFFFF; a color field
\* outside that range makes the decode fail.
C15_ColorInRange ==
    Decoded => (0 <= parsed.value.color /\ parsed.value.color <= 16777215)

\* C16: a packed string of eight or more fields whose first six convert is
\* decoded to a complete record; the record is the one its first eight
\* fields alone decode to, and danmaku_id and user_hash are fields 7 and 8
\* as they stand.
C16_ExtraFieldsIgnored ==
    (codecPc # "build" /\ Len(Fields) >= 8 /\ FirstSixConvert) =>
        /\ parsed.kind = "return"
        /\ DOMAIN parsed.value = ParamKeys
        /\ parsed.value = parse_params_string(Join(SubSeq(Fields, 1, 8)))
        /\ parsed.value.danmaku_id = Fields[7]
        /\ parsed.value.user_hash = Fields[8]

\* nine fields, the ninth different from the eighth, were decoded
C16_Witness ==
    /\ codecPc = "done"
    /\ Len(Fields) = 9
    /\ FirstSixConvert
    /\ Fields[9] # Fields[8]
    /\ Fields[9] # <<>>
    /\ Decoded

IsHex(c) == \E i \in 1..16 : HexChars[i] = c

\* C18: for a color of 32 bits without sign the label is '#' and exactly six
\* uppercase hexadecimal digits; 16777215 gives "#FFFFFF", 255 gives "#0000FF".
C18_SixHexDigits ==
    (codecPc = "labelled" /\ 0 <= parsed.value.color /\ parsed.value.color \div 65536 < 65536) =>
        /\ Len(row_labels.color) = 7
        /\ row_labels.color[1] = "#"
        /\ \A i \in 2..7 : IsHex(row_labels.color[i])
        /\ (parsed.value.color = 16777215 =>
               row_labels.color = <<"#", "F", "F", "F", "F", "F", "F">>)
        /\ (parsed.value.color = 255 =>
               row_labels.color = <<"#", "0", "0", "0", "0", "F", "F">>)

KnownModes == {1, 4, 5, 6, 7, 8}
KnownSizes == {12, 18, 25}
Range(f) == {f[x] : x \in DOMAIN f}

\* the parts of C19 that do not name the synthetic labels: mode 1 and size
\* 25 have the labels of the test, a known code has a label of its own
\* that holds no '(', an unknown one a label that is none of the known
CatalogTables ==
    /\ DOMAIN mode_names = KnownModes
    /\ DOMAIN size_names = KnownSizes
    /\ \A a, b \in KnownModes : mode_names[a] = mode_names[b] => a = b
    /\ \A a, b \in KnownSizes : size_names[a] = size_names[b] => a = b
    /\ (parsed.value.mode = 1 =>
           row_labels.mode = <<"U+4ECE", "U+53F3", "U+81F3", "U+5DE6", "U+6EDA", "U+52A8">>)
    /\ (parsed.value.font_size = 25 => row_labels.font_size = <<"U+5927">>)
    /\ (parsed.value.mode \in KnownModes => row_labels.mode = mode_names[parsed.value.mode])
    /\ (parsed.value.font_size \in KnownSizes =>
           row_labels.font_size = size_names[parsed.value.font_size])
    /\ (parsed.value.mode \notin KnownModes => row_labels.mode \notin Range(mode_names))
    /\ (parsed.value.font_size \notin KnownSizes =>
           row_labels.font_size \notin Range(size_names))

\* C19 (as claimed): the lookups are total with fixed tables, and an
\* unknown mode is labelled "unknown(<code>)", an unknown size
\* "custom(<size>)".
C19_SyntheticLabelsAscii ==
    codecPc = "labelled" =>
        /\ CatalogTables
        /\ (parsed.value.mode \notin KnownModes =>
               row_labels.mode =
                   <<"u", "n", "k", "n", "o", "w", "n", "(">>
                       \o DecStr(parsed.value.mode) \o <<")">>)
        /\ (parsed.value.font_size \notin KnownSizes =>
               row_labels.font_size =
                   <<"c", "u", "s", "t", "o", "m", "(">>
                       \o DecStr(parsed.value.font_size) \o <<")">>)

\* C19 (amended): the lookups are total with fixed tables, and an unknown
\* mode is labelled "未知模式(<code>)", an unknown size "自定义(<size>)",
\* with the code in decimal.
C19_SyntheticLabels ==
    codecPc = "labelled" =>
        /\ CatalogTables
        /\ (parsed.value.mode \notin KnownModes =>
               row_labels.mode =
                   <<"U+672A", "U+77E5", "U+6A21", "U+5F0F", "(">>
                       \o DecStr(parsed.value.mode) \o <<")">>)
        /\ (parsed.value.font_size \notin KnownSizes =>
               row_labels.font_size =
                   <<"U+81EA", "U+5B9A", "U+4E49", "(">>
                       \o DecStr(parsed.value.font_size) \o <<")">>)

\* a record with an unknown mode and the known size 25 was labelled
C19_Witness ==
    /\ codecPc = "labelled"
    /\ parsed.value.mode \notin KnownModes
    /\ parsed.value.font_size = 25

\* one of the read-only operations has been called
InCall == statsPc # "idle" \/ popPc # "idle" \/ listing.pc # "idle"

\* C20: no step of get_danmaku_statistics, get_comprehensive_statistics,
\* get_popular_danmaku or get_parsed_danmaku, from the call to its return
\* or its exception, changes table comment: the same rows with the same
\* fields before and after.
C20_ReadsKeepRows == [][InCall' => comments' = comments]_vars

\* get_parsed_danmaku returned two records, one of a row that does not decode
C20_Witness ==
    /\ listing.pc = "done"
    /\ listing.result.kind = "return"
    /\ Len(listing.result.value) = 2
    /\ \E i \in 1..2 : "color" \notin DOMAIN listing.result.value[i]
    /\ Cardinality(EpisodeRows(1)) = 2

(***************************************************************************)
(* C21-C30: strategy equivalence, density and similarity scores, cleanup   *)
(* under repetition, concurrency and failure, statistics under concurrent  *)
(* writes.                                                                 *)
(***************************************************************************)
\* every comment of the episode decodes
AllDecode(e) == \A r \in EpisodeRows(e) : parse_params_string(r.p) # EmptyDict

\* C21: for an episode whose comments all decode and number at most the
\* sample limit, a result of the native strategy (tagged database_view)
\* holds the color, mode and font-size distributions the in-process tally
\* of all the episode's rows gives: same labels, same counts.
C21_StrategiesAgree ==
    (/\ enhancedResult.kind = "return"
     /\ enhancedResult.value.method = "database_view"
     /\ AllDecode(statsCall.episode_id)
     /\ Cardinality(EpisodeRows(statsCall.episode_id)) <= statsCall.python_limit) =>
        \A col \in {"color", "mode", "font_size"} :
            enhancedResult.value[DistKey(col)] =
                PyDistribution(DecodedSample(EpisodeRows(statsCall.episode_id)), col)

\* the row of table comment with the given id
RowOf(id) == CHOOSE r \in comments : r.id = id

\* the density score as stated: the other comments of the same episode at
\* most 5 seconds away, either side, bounds included
Density(c) ==
    Cardinality({d \in comments :
        d # c /\ d.episode_id = c.episode_id /\ Abs(d.t - c.t) <= 5000})

\* the ranking query has returned
Ranked == popPc \in {"load", "done"} /\ popResult.kind # "raise" /\ popCall.limit >= 0

\* C22: the nearby_count the ranking query gives each comment is its density
\* score, the rows ranked are rows of the episode asked for, and the
\* ranking leaves no comment out for a score of 0: it holds min(limit,
\* rows of the episode) comments.
C22_DensityScore ==
    Ranked =>
        /\ \A i \in 1..Len(rank_rows) :
              /\ RowOf(rank_rows[i][1]).episode_id = popCall.episode_id
              /\ rank_rows[i][2] = Density(RowOf(rank_rows[i][1]))
        /\ Len(rank_rows) =
               Min(popCall.limit, Cardinality(EpisodeRows(popCall.episode_id)))

\* ranked: a comment whose one neighbour is exactly 5 seconds away, and a
\* comment with no neighbour
C22_Witness ==
    /\ Ranked
    /\ \E i \in 1..Len(rank_rows) :
          /\ rank_rows[i][2] = 1
          /\ \E d \in EpisodeRows(popCall.episode_id) :
                Abs(d.t - RowOf(rank_rows[i][1]).t) = 5000
    /\ \E i \in 1..Len(rank_rows) : rank_rows[i][2] = 0

\* fractions <<numerator, denominator>> with positive denominators
RatEq(x, y) == x[1] * y[2] = y[1] * x[2]
RatLe(x, y) == x[1] * y[2] <= y[1] * x[2]

\* what C23 says of every similarity but when it is 1: the weighted sum,
\* symmetric, within [0, 1], at most 0.8 for offsets 5 seconds or more apart
WeightedSum ==
    LET a == simCall.danmaku1
        b == simCall.danmaku2
        cs == string_similarity(a.m, b.m)
        dt == Abs(a.t - b.t)
        ts == IF dt >= 5000 THEN <<0, 1>> ELSE <<5000 - dt, 5000>>
    IN  /\ simCall.value = <<4 * cs[1] * ts[2] + ts[1] * cs[2], 5 * cs[2] * ts[2]>>
        /\ simCall.value = calculate_danmaku_similarity(b, a)
        /\ RatLe(<<0, 1>>, simCall.value)
        /\ RatLe(simCall.value, <<1, 1>>)
        /\ (dt >= 5000 => RatLe(simCall.value, <<4, 5>>))

\* C23 (as claimed): the similarity is the weighted sum, symmetric, within
\* [0, 1], at most 0.8 for offsets 5 seconds or more apart, and 1 only for
\* identical content at identical time.
C23_OneOnlyIfIdentical ==
    simCall.fn = "danmaku" =>
        /\ WeightedSum
        /\ (RatEq(simCall.value, <<1, 1>>) =>
               /\ simCall.danmaku1.m = simCall.danmaku2.m
               /\ simCall.danmaku1.t = simCall.danmaku2.t)

\* C23 (amended): the similarity is the weighted sum, symmetric, within
\* [0, 1], at most 0.8 for offsets 5 seconds or more apart, and 1 exactly
\* when the offsets are equal and the two texts are equal or have the same
\* set of characters.
C23_OneIffSameCharacters ==
    simCall.fn = "danmaku" =>
        /\ WeightedSum
        /\ (RatEq(simCall.value, <<1, 1>>) <=>
               /\ CharSet(simCall.danmaku1.m) = CharSet(simCall.danmaku2.m)
               /\ simCall.danmaku1.t = simCall.danmaku2.t)

\* two comments of different text and the same characters, at one offset,
\* were compared
C23_Witness ==
    /\ simCall.fn = "danmaku"
    /\ simCall.danmaku1.m # simCall.danmaku2.m
    /\ CharSet(simCall.danmaku1.m) = CharSet(simCall.danmaku2.m)
    /\ simCall.danmaku1.t = simCall.danmaku2.t
    /\ RatEq(simCall.value, <<1, 1>>)

\* what C24 says of texts that are not both empty: the Jaccard index of the
\* character sets, 1 for identical texts, 0 when one is empty
JaccardOfCharacters ==
    LET a == CharSet(simCall.s1)
        b == CharSet(simCall.s2)
    IN  /\ (simCall.s1 # <<>> /\ simCall.s2 # <<>>) =>
               RatEq(simCall.value, <<Cardinality(a \cap b), Cardinality(a \cup b)>>)
        /\ (simCall.s1 = simCall.s2 /\ simCall.s1 # <<>>) => RatEq(simCall.value, <<1, 1>>)
        /\ ((simCall.s1 = <<>>) # (simCall.s2 = <<>>)) => RatEq(simCall.value, <<0, 1>>)
        /\ (a = b /\ simCall.s1 # <<>>) => RatEq(simCall.value, <<1, 1>>)

\* C24 (as claimed): content similarity is the Jaccard index of the texts'
\* character sets, 1.0 for identical texts, and 0.0 whenever a text is
\* empty, also when both are.
C24_EmptyScoresZero ==
    simCall.fn = "string" =>
        /\ JaccardOfCharacters
        /\ (simCall.s1 = <<>> \/ simCall.s2 = <<>>) => RatEq(simCall.value, <<0, 1>>)

\* C24 (amended): content similarity is the Jaccard index of the texts'
\* character sets, 1.0 for identical texts, two empty texts among them, and
\* 0.0 when exactly one text is empty.
C24_BothEmptyScoresOne ==
    simCall.fn = "string" =>
        /\ JaccardOfCharacters
        /\ (simCall.s1 = <<>> /\ simCall.s2 = <<>>) => RatEq(simCall.value, <<1, 1>>)

\* two empty texts were compared
C24_Witness ==
    /\ simCall.fn = "string"
    /\ simCall.s1 = <<>>
    /\ simCall.s2 = <<>>

\* the call of caller c returned a success result with cleanup_stats
Cleaned(c) ==
    /\ cleanup[c].pc = "done"
    /\ cleanup[c].result.kind = "return"
    /\ cleanup[c].result.success
    /\ "cleanup_stats" \in DOMAIN cleanup[c].result.data

\* the call of caller c returned a success result
Succeeded(c) ==
    /\ cleanup[c].pc = "done"
    /\ cleanup[c].result.kind = "return"
    /\ cleanup[c].result.success

\* the removed_count of a success result, with or without cleanup_stats
RemovedCount(c) ==
    IF "cleanup_stats" \in DOMAIN cleanup[c].result.data
    THEN cleanup[c].result.data.cleanup_stats.removed_count
    ELSE cleanup[c].result.data.removed_count

\* C25: when a cleanup of an episode has succeeded and a second cleanup of
\* the episode with the same threshold, called after the first returned,
\* succeeds too, the second removes 0 comments and finds no group, and
\* every two comments the first left have a similarity below the threshold.
C25_SecondCleanupRemovesNothing ==
    \A c, d \in Callers :
        (/\ Succeeded(c) /\ Succeeded(d)
         /\ c \in cleanup[d].after
         /\ cleanup[c].episode_id = cleanup[d].episode_id
         /\ cleanup[c].similarity_threshold = cleanup[d].similarity_threshold) =>
            /\ RemovedCount(d) = 0
            /\ cleanup[d].duplicates = <<>>
            /\ \A x, y \in EpisodeRows(cleanup[c].episode_id) :
                  x # y => ~IsDuplicate(x, y, cleanup[c].similarity_threshold)

\* a cleanup removed a comment and left two, and a second cleanup called
\* after it searched the two
C25_Witness ==
    /\ Cleaned(1) /\ Cleaned(2)
    /\ 1 \in cleanup[2].after
    /\ RemovedCount(1) = 1
    /\ Len(cleanup[2].all_danmaku) = 2
    /\ cleanup[2].compared

\* C26: when two cleanups of one episode with one threshold have both
\* returned, of every duplicate group either of them found at least one
\* member is still stored.
C26_GroupMemberSurvives ==
    (Cleaned(1) /\ Cleaned(2)) =>
        \A c \in Callers :
            \A g \in 1..Len(cleanup[c].duplicates) :
                \E k \in 1..Len(cleanup[c].duplicates[g]) :
                    cleanup[c].duplicates[g][k] \in comments

\* C27: in a success result removed_count is the number of rows the call's
\* DELETE statements removed, and remaining_count the number of comments of
\* the episode stored when the call committed.
C27_ReportIsAccurate ==
    \A c \in Callers :
        Cleaned(c) =>
            /\ cleanup[c].result.data.cleanup_stats.removed_count =
                   Cardinality(cleanup[c].matched)
            /\ cleanup[c].result.data.cleanup_stats.remaining_count =
                   cleanup[c].stored_after

\* C28: when a delete of the deletion loop has raised, the call returned an
\* error result and did not raise, and every comment stored before the call
\* is still stored: the deletions executed before the exception were rolled
\* back and nothing was committed.
C28_FailedCleanupRemovesNothing ==
    (cleanup[1].pc = "done" /\ cleanup[1].raised_at = "delete") =>
        /\ cleanup[1].result.kind = "return"
        /\ ~cleanup[1].result.success
        /\ cleanup[1].undone \subseteq {r.id : r \in comments}
        /\ {r.id : r \in comments} = 1..(nextId - 1)

\* a delete raised after an earlier delete of the same call had executed
C28_Witness ==
    /\ cleanup[1].pc = "done"
    /\ cleanup[1].raised_at = "delete"
    /\ cleanup[1].undone # {}

\* C29: in every result of get_comprehensive_statistics made by the Python
\* tallies, the counts of the color, the mode and the font-size
\* distribution have the same sum.
C29_FallbackSumsAgree ==
    (enhancedResult.kind = "return" /\ enhancedResult.value.method = "python_parsing") =>
        /\ SumCounts(enhancedResult.value.color_distribution) =
               SumCounts(enhancedResult.value.mode_distribution)
        /\ SumCounts(enhancedResult.value.mode_distribution) =
               SumCounts(enhancedResult.value.font_size_distribution)

\* C30: in every result of get_danmaku_statistics the counts of
\* time_distribution sum to total_count.
C30_MinuteCountsSumToTotal ==
    statsResult.kind = "return" =>
        SumCounts(statsResult.value.time_distribution) = statsResult.value.total_count

====
